---- MODULE Spec2Model ----
(***************************************************************************)
(* Model of the technology diffusion / fuel-switching engine of the        *)
(* energy_demand repository.                                               *)
(*                                                                         *)
(*   SpecLoad    load_assumptions (energy_demand/assumptions.py)           *)
(*   SpecSwitch  sigmoid fit and switch resolver (spec 4.2 / 4.3)          *)
(*   SpecFn      helper functions called on their own                      *)
(*   Spec        the driver's year loop with WeatherRegion construction    *)
(*               (main.py, general_assumptions.py, weather_region.py,      *)
(*               technological_stock.py)                                   *)
(*                                                                         *)
(* Real numbers are exact rationals <<n, d>> (d > 0, lowest terms), or     *)
(* fixed-point integers where a unit is stated.                            *)
(***************************************************************************)
EXTENDS Integers, Sequences, FiniteSets, TLC

VARIABLES
    \* ---- load_assumptions (assumptions.py)
    la_pc,              \* position in load_assumptions
    la_fuels,           \* data['fuel_raw_data_resid_enduses']
    tech_enduse_by,     \* assumptions['tech_enduse_by']
    fuel_type_p_by,     \* assumptions['fuel_type_p_by']
    assump_fuel_frac_ey, \* assump_fuel_frac_ey of load_assumptions
    fuel_type_p_ey,     \* assumptions['fuel_type_p_ey']
    \* ---- sigmoid fit and switch resolver (spec 4.2 / 4.3)
    sw_pc,              \* position in resolve_switches
    sw_base_shares,     \* base-year shares of the technologies of a slot
    sw_switches,        \* the fuel switch specifications read from file
    sw_err,             \* the error the resolver failed with, or "none"
    sw_curves,          \* fitted curve per slot and gaining technology
    sw_resolved,        \* per slot: error value or shares per year
    \* ---- driver (main.py) and WeatherRegion construction
    main_i,             \* position in the driver: index into MainSteps
    sim_yrs,            \* the simulated years, in the order they are run
    yr_i,               \* index into sim_yrs of the year being simulated
    curr_yr,            \* assumptions.curr_yr
    technologies,       \* assumptions.technologies
    regional_vars,      \* assumptions.regional_vars
    annual_tech_diff_params, \* result of init_scripts.switch_calculations
    temp_by,            \* base-year temperatures [day][hour], in 0.5 degC
    daytype,            \* assumptions.model_yeardays_daytype [day]
    wr_i,               \* position in WeatherRegion.__init__: index into
                        \* WeatherRegionSteps, 0 outside the constructor
    wr,                 \* locals and fields of the WeatherRegion built
    load_profiles,      \* the LoadProfileStocks of the WeatherRegion
    heap,               \* the stock_technologies dictionaries, by identity
    stock_ref,          \* (year, stock name) -> identity of its dictionary
    \* ---- helper functions called on their own
    fn_pc,              \* "call", "returned", "filled"
    fn_call,            \* the function called and its arguments
    fn_result,          \* what the call returned
    fn_heap             \* the dictionaries the call created, by identity

laVars == <<la_pc, la_fuels, tech_enduse_by, fuel_type_p_by, assump_fuel_frac_ey,
           fuel_type_p_ey>>

swVars == <<sw_pc, sw_base_shares, sw_switches, sw_err, sw_curves, sw_resolved>>

drVars ==
    <<main_i, sim_yrs, yr_i, curr_yr, technologies, regional_vars,
      annual_tech_diff_params, temp_by, daytype, wr_i, wr, load_profiles,
      heap, stock_ref>>

fnVars == <<fn_pc, fn_call, fn_result, fn_heap>>

vars == <<laVars, swVars, drVars, fnVars>>

\* what load_assumptions / the resolver / the driver leave alone
notLoad == <<swVars, drVars, fnVars>>

notSwitch == <<laVars, drVars, fnVars>>

notDriver == <<laVars, swVars, fnVars>>

notFn == <<laVars, swVars, drVars>>

-----------------------------------------------------------------------------
(* Bounds of the model                                                     *)

\* largest raw fuel value of an (enduse, fueltype) cell of the input table
MaxFuel == 1

\* largest number of switch specifications of one scenario
MaxSwitches == 2

\* number of modelled days of a year
Days == 2

\* number of hours of a day
Hours == 2

-----------------------------------------------------------------------------
(* Arithmetic helpers                                                      *)

Abs(x) == IF x < 0 THEN -x ELSE x

Max2(a, b) == IF a >= b THEN a ELSE b

Min2(a, b) == IF a <= b THEN a ELSE b

RECURSIVE GCD(_, _)
GCD(a, b) == IF b = 0 THEN a ELSE GCD(b, a % b)

\* rational n/d in lowest terms with positive denominator
Rat(n, d) ==
    LET s == IF d < 0 THEN -1 ELSE 1
        g == GCD(Abs(n), Abs(d))
    IN  IF n = 0 THEN <<0, 1>> ELSE <<(s * n) \div g, (s * d) \div g>>

RZero == <<0, 1>>

ROne == <<1, 1>>

RInt(n) == <<n, 1>>

\* sums and products are reduced before they are multiplied out
RAdd(a, b) ==
    LET g == GCD(a[2], b[2])
    IN Rat(a[1] * (b[2] \div g) + b[1] * (a[2] \div g), (a[2] \div g) * b[2])

RNeg(a) == <<-a[1], a[2]>>

RSub(a, b) == RAdd(a, RNeg(b))

RMul(a, b) ==
    IF a[1] = 0 \/ b[1] = 0 THEN <<0, 1>>
    ELSE LET g1 == GCD(Abs(a[1]), b[2])
             g2 == GCD(Abs(b[1]), a[2])
         IN Rat((a[1] \div g1) * (b[1] \div g2), (a[2] \div g2) * (b[2] \div g1))

\* a / b, b nonzero
RDiv(a, b) == RMul(a, IF b[1] < 0 THEN <<-b[2], -b[1]>> ELSE <<b[2], b[1]>>)

RLe(a, b) ==
    LET g == GCD(a[2], b[2])
    IN a[1] * (b[2] \div g) <= b[1] * (a[2] \div g)

RLt(a, b) ==
    LET g == GCD(a[2], b[2])
    IN a[1] * (b[2] \div g) < b[1] * (a[2] \div g)

RECURSIVE SumOver(_, _)
\* integer sum of f over the finite set S
SumOver(f, S) ==
    IF S = {} THEN 0
    ELSE LET x == CHOOSE y \in S : TRUE IN f[x] + SumOver(f, S \ {x})

RECURSIVE RSumOver(_, _)
\* rational sum of f over the finite set S
RSumOver(f, S) ==
    IF S = {} THEN RZero
    ELSE LET x == CHOOSE y \in S : TRUE IN RAdd(f[x], RSumOver(f, S \ {x}))

\* np.sum of a dict / 1-d array
SumFn(f) == SumOver(f, DOMAIN f)

RSumFn(f) == RSumOver(f, DOMAIN f)

\* {} : a dictionary without keys
EmptyDict == [t \in {} |-> 0]

-----------------------------------------------------------------------------
(* load_assumptions: the base-year technology share table                  *)

\* a share of 1.0 in the fixed-point unit of shares (1e-4)
ShareOne == 100 * 100

\* data['resid_enduses']
resid_enduses == {"space_heating", "water_heating"}

\* data['fuel_type_lu']: the fueltypes load_assumptions names, and one that
\* gets no technology
fuel_type_lu == {"coal", "gas", "electricity", "oil", "hydrogen"}

\* data['fuel_type_lu']: the number of a fueltype
fuel_type_nr ==
    [coal |-> 0, gas |-> 1, electricity |-> 2, oil |-> 3, hydrogen |-> 4]

\* assump_fuel_frac_ey: the fraction of every fueltype of space heating,
\* 0 for all as written, or -0.2 for one fueltype
FuelFracOptions ==
    {[space_heating |-> [f \in fuel_type_lu |-> RZero]],
     [space_heating |-> [f \in fuel_type_lu |->
                            IF f = "electricity" THEN Rat(-1, 5) ELSE RZero]],
     [space_heating |-> [f \in fuel_type_lu |->
                            IF f = "coal" THEN Rat(-1, 5) ELSE RZero]]}

InitLoad ==
    /\ la_pc = "start"
    /\ la_fuels \in [resid_enduses -> [fuel_type_lu -> 0..MaxFuel]]
    /\ tech_enduse_by = EmptyDict
    /\ fuel_type_p_by = EmptyDict
    /\ assump_fuel_frac_ey \in FuelFracOptions
    /\ fuel_type_p_ey = EmptyDict

\* load_assumptions not running
IdleLoad ==
    /\ la_pc = "idle"
    /\ la_fuels = EmptyDict
    /\ tech_enduse_by = EmptyDict
    /\ fuel_type_p_by = EmptyDict
    /\ assump_fuel_frac_ey = EmptyDict
    /\ fuel_type_p_ey = EmptyDict

\* generate_fuel_type_p_by: fuel of a fueltype as a fraction of the enduse
generate_fuel_type_p_by(fuel_data) ==
    [enduse \in DOMAIN fuel_data |->
        LET sum_fueltype == SumFn(fuel_data[enduse])
        IN  [fueltype \in DOMAIN fuel_data[enduse] |->
                IF sum_fueltype # 0
                THEN Rat(fuel_data[enduse][fueltype], sum_fueltype)
                ELSE RInt(fuel_data[enduse][fueltype])]]

\* assumptions.py 282-283
LA_FuelTypePBy ==
    /\ la_pc = "start"
    /\ fuel_type_p_by' = generate_fuel_type_p_by(la_fuels)
    /\ la_pc' = "fuel_type_p_ey"
    /\ UNCHANGED <<la_fuels, tech_enduse_by, assump_fuel_frac_ey, fuel_type_p_ey>>
    /\ UNCHANGED notLoad

RAbs(a) == <<Abs(a[1]), a[2]>>

\* mf.convert_to_array: one row (fueltype, share) per fueltype
convert_to_array(p_by) ==
    [enduse \in DOMAIN p_by |->
        [fueltype \in DOMAIN p_by[enduse] |->
            <<RInt(fuel_type_nr[fueltype]), p_by[enduse][fueltype]>>]]

\* np.array(list(assump_fuel_frac_ey[enduse].items())): one row
\* (fueltype, fraction) per fueltype
array_fuel_switch_assumptions(fuel_frac) ==
    [fueltype \in DOMAIN fuel_frac |->
        <<RInt(fuel_type_nr[fueltype]), fuel_frac[fueltype]>>]

\* abs(array - 1), taken of both columns
factor_to_multiply_fuel_p(fuel_frac) ==
    [fueltype \in DOMAIN fuel_frac |->
        LET row == array_fuel_switch_assumptions(fuel_frac)[fueltype]
        IN <<RAbs(RSub(row[1], ROne)), RAbs(RSub(row[2], ROne))>>]

\* fuel_type_p_by[enduse] * factor_to_multiply_fuel_p: the product of the
\* whole rows; the assignment of column 0 to itself changes nothing
end_year_rows(p_by_rows, fuel_frac) ==
    [fueltype \in DOMAIN p_by_rows |->
        <<RMul(p_by_rows[fueltype][1],
               factor_to_multiply_fuel_p(fuel_frac)[fueltype][1]),
          RMul(p_by_rows[fueltype][2],
               factor_to_multiply_fuel_p(fuel_frac)[fueltype][2])>>]

\* assumptions.py 297-312
LA_FuelTypePEy ==
    /\ la_pc = "fuel_type_p_ey"
    /\ fuel_type_p_ey' =
          [enduse \in DOMAIN fuel_type_p_by |->
              IF enduse \notin DOMAIN assump_fuel_frac_ey
              THEN convert_to_array(fuel_type_p_by)[enduse]
              ELSE end_year_rows(convert_to_array(fuel_type_p_by)[enduse],
                                 assump_fuel_frac_ey[enduse])]
    /\ la_pc' = "init_tech_enduse_by"
    /\ UNCHANGED <<la_fuels, tech_enduse_by, fuel_type_p_by, assump_fuel_frac_ey>>
    /\ UNCHANGED notLoad

\* assumptions.py 332-338: an empty dictionary per enduse and fueltype
init_tech_enduse_by(enduses, fueltypes) ==
    [enduse \in enduses |-> [fueltype \in fueltypes |-> EmptyDict]]

LA_InitTechEnduseBy ==
    /\ la_pc = "init_tech_enduse_by"
    /\ tech_enduse_by' = init_tech_enduse_by(resid_enduses, fuel_type_lu)
    /\ la_pc' = "assign_gas"
    /\ UNCHANGED <<la_fuels, fuel_type_p_by, assump_fuel_frac_ey, fuel_type_p_ey>>
    /\ UNCHANGED notLoad

\* a dictionary literal {tech: share, ...} given as a set of <<tech, share>>
DictOf(pairs) ==
    [t \in {p[1] : p \in pairs} |-> (CHOOSE p \in pairs : p[1] = t)[2]]

\* the technology shares load_assumptions writes for space heating
space_heating_gas == DictOf({<<"gas_boiler", ShareOne>>})

space_heating_electricity ==
    DictOf({<<"elec_boiler2", ShareOne \div 10>>,
            <<"elec_boiler", (9 * ShareOne) \div 10>>})

space_heating_oil == DictOf({<<"oil_boiler", ShareOne>>})

space_heating_hydrogen == DictOf({<<"hydrogen_boiler", 0>>})

AssignSlot(table, enduse, fueltype, shares) ==
    [table EXCEPT ![enduse][fueltype] = shares]

LA_AssignGas ==
    /\ la_pc = "assign_gas"
    /\ tech_enduse_by' =
          AssignSlot(tech_enduse_by, "space_heating", "gas", space_heating_gas)
    /\ la_pc' = "assign_electricity"
    /\ UNCHANGED <<la_fuels, fuel_type_p_by, assump_fuel_frac_ey, fuel_type_p_ey>>
    /\ UNCHANGED notLoad

LA_AssignElectricity ==
    /\ la_pc = "assign_electricity"
    /\ tech_enduse_by' =
          AssignSlot(tech_enduse_by, "space_heating", "electricity",
                     space_heating_electricity)
    /\ la_pc' = "assign_oil"
    /\ UNCHANGED <<la_fuels, fuel_type_p_by, assump_fuel_frac_ey, fuel_type_p_ey>>
    /\ UNCHANGED notLoad

LA_AssignOil ==
    /\ la_pc = "assign_oil"
    /\ tech_enduse_by' =
          AssignSlot(tech_enduse_by, "space_heating", "oil", space_heating_oil)
    /\ la_pc' = "assign_hydrogen"
    /\ UNCHANGED <<la_fuels, fuel_type_p_by, assump_fuel_frac_ey, fuel_type_p_ey>>
    /\ UNCHANGED notLoad

LA_AssignHydrogen ==
    /\ la_pc = "assign_hydrogen"
    /\ tech_enduse_by' =
          AssignSlot(tech_enduse_by, "space_heating", "hydrogen",
                     space_heating_hydrogen)
    /\ la_pc' = "tech_enduse_by_done"
    /\ UNCHANGED <<la_fuels, fuel_type_p_by, assump_fuel_frac_ey, fuel_type_p_ey>>
    /\ UNCHANGED notLoad

NextLoad ==
    \/ LA_FuelTypePBy
    \/ LA_FuelTypePEy
    \/ LA_InitTechEnduseBy
    \/ LA_AssignGas
    \/ LA_AssignElectricity
    \/ LA_AssignOil
    \/ LA_AssignHydrogen

-----------------------------------------------------------------------------
(* Sigmoid diffusion calculator and switch resolver.  load_assumptions     *)
(* (assumptions.py 353-383) only calls them; they are modelled from        *)
(* sections 4.2 and 4.3 of the specification.                              *)

\* first simulated year: the base year
base_yr == 2015

\* the years a share trajectory is evaluated for (main.py 92)
sim_yrs_grid == {base_yr + 5 * i : i \in 0..7}

\* assumptions['sig_midpoint']: the midpoint of the sigmoid diffusion
sig_midpoint == 0

\* assumptions['sig_steeppness']: the steepness every sigmoid diffusion uses
sig_steeppness == 1

\* the tolerance of the base-year verification of a fit, 1e-3
FitTol == ShareOne \div 1000

\* e^x * 1000 for x = 0..12; beyond 12 the logistic is below the resolution
\* of the share unit
ExpTable ==
    <<1000, 2718, 7389, 20086, 54598, 148413, 403429, 1096633, 2980958,
      8103084, 22026466, 59874142, 162754791>>

Exp1000(x) == ExpTable[Min2(x, Len(ExpTable) - 1) + 1]

\* a variant without the flat line: the logistic is solved for every input
sigmoid_curve_always_logistic(end_yr, share_by, share_ey, max_share) ==
    [flat |-> FALSE,
     L |-> max_share,
     q |-> IF share_ey <= 0 THEN RZero ELSE Rat(max_share - share_ey, share_ey),
     end_yr |-> end_yr,
     steepness |-> sig_steeppness]

\* the logistic through (end_yr, share_ey) with ceiling L and the global
\* steepness: L / (1 + exp(-steepness * (year - midpoint))), the midpoint
\* solved at end_yr, i.e. exp(-steepness * (end_yr - midpoint)) = q with
\* q = L / share_ey - 1.  share_by = share_ey gives the flat line.
sigmoid_curve(end_yr, share_by, share_ey, max_share) ==
    [flat |-> share_by = share_ey,
     L |-> IF share_by = share_ey THEN share_by ELSE max_share,
     q |-> IF share_by = share_ey \/ share_ey <= 0 THEN RZero
           ELSE Rat(max_share - share_ey, share_ey),
     end_yr |-> end_yr,
     steepness |-> IF share_by = share_ey THEN 0 ELSE sig_steeppness]

\* evaluate(curve, year): the logistic value in share units
evaluate(curve, year) ==
    IF curve.flat THEN curve.L
    ELSE LET x == curve.steepness * (curve.end_yr - year)
             qn == curve.q[1]
             qd == curve.q[2]
         IN  IF x >= 0
             THEN (curve.L * qd * 1000) \div (qd * 1000 + qn * Exp1000(x))
             ELSE curve.L
                    - (curve.L * qn * 1000) \div (qd * Exp1000(-x) + qn * 1000)

\* fit_sigmoid: the curve, verified at the base year; the ceiling must lie
\* above the end share for the midpoint to exist
fit_sigmoid(by, end_yr, share_by, share_ey, max_share) ==
    LET curve == sigmoid_curve(end_yr, share_by, share_ey, max_share)
        ok == \/ curve.flat
              \/ /\ share_ey > 0
                 /\ share_ey < max_share
                 /\ Abs(evaluate(curve, by) - share_by) <= FitTol
    IN  [err |-> IF ok THEN "none" ELSE "SigmoidFitError", curve |-> curve]

\* ---- the inputs of a scenario

\* the (enduse, fueltype) slots of the scenarios
SwitchSlots ==
    {<<"space_heating", "electricity">>, <<"space_heating", "gas">>,
     <<"water_heating", "electricity">>}

\* the technologies a switch can install (assumptions['tech_install'])
tech_install == {"heat_pump", "tech_A"}

\* max achievable share of a technology
tech_max_share(tech) == IF tech = "heat_pump" THEN ShareOne \div 2 ELSE ShareOne

SwitchYears == {2030, 2050}

TargetShares == {(n * ShareOne) \div 10 : n \in {1, 3, 4, 7}}

SwitchUniverse ==
    [slot : SwitchSlots, technology : tech_install,
     switch_yr : SwitchYears, share_ey : TargetShares]

\* base-year technology shares of a slot
BaseShareOptions ==
    {DictOf({<<"boiler", ShareOne>>}),
     DictOf({<<"boiler", (98 * ShareOne) \div 100>>,
             <<"heat_pump", (2 * ShareOne) \div 100>>}),
     DictOf({<<"boiler", (9 * ShareOne) \div 10>>,
             <<"heat_pump", ShareOne \div 10>>})}

\* one row per (slot, technology), as the switch file is read
WellFormedSwitches(switches) ==
    \A a, b \in switches :
        (a.slot = b.slot /\ a.technology = b.technology) => a = b

RECURSIVE SubsetsUpTo(_, _)
\* the subsets of U with at most k elements
SubsetsUpTo(U, k) ==
    IF k = 0 THEN {{}}
    ELSE LET P == SubsetsUpTo(U, k - 1)
         IN  P \cup {S \cup {x} : S \in P, x \in U}

InitSwitch ==
    /\ sw_pc = "validate"
    /\ sw_base_shares \in BaseShareOptions
    /\ sw_switches \in {S \in SubsetsUpTo(SwitchUniverse, MaxSwitches) :
                          WellFormedSwitches(S)}
    /\ sw_err = "none"
    /\ sw_curves = EmptyDict
    /\ sw_resolved = EmptyDict

\* the resolver not running
IdleSwitch ==
    /\ sw_pc = "idle"
    /\ sw_base_shares = EmptyDict
    /\ sw_switches = {}
    /\ sw_err = "none"
    /\ sw_curves = EmptyDict
    /\ sw_resolved = EmptyDict

\* ---- step 1: validation

SameSlotYear(a, b) == a.slot = b.slot /\ a.switch_yr = b.switch_yr

TargetTotal(S) == SumOver([s \in S |-> s.share_ey], S)

\* two switches of the same (enduse, fueltype, achievement_year) whose
\* targets total more than 1.0
ConflictingSwitches_none(switches) == FALSE

ConflictingSwitches(switches) ==
    \E a, b \in switches :
        /\ a # b
        /\ SameSlotYear(a, b)
        /\ TargetTotal({s \in switches : SameSlotYear(a, s)}) > ShareOne

\* the targets of one fueltype slot total more than 1.0
UnreachableShare(switches) ==
    \E a \in switches :
        TargetTotal({s \in switches : s.slot = a.slot}) > ShareOne

SW_Validate ==
    /\ sw_pc = "validate"
    /\ sw_err' = IF ConflictingSwitches(sw_switches)
                    THEN "ConflictingSwitchError"
                 ELSE IF UnreachableShare(sw_switches)
                    THEN "UnreachableShareError"
                 ELSE "none"
    /\ sw_pc' = IF sw_err' = "none" THEN "fit" ELSE "failed"
    /\ UNCHANGED <<sw_base_shares, sw_switches, sw_curves, sw_resolved>>
    /\ UNCHANGED notSwitch

\* ---- step 3: one diffusion curve per gaining technology

SlotSwitches(switches, slot) == {s \in switches : s.slot = slot}

BaseShare(base, tech) == IF tech \in DOMAIN base THEN base[tech] ELSE 0

SwitchOf(switches, slot, tech) ==
    CHOOSE s \in SlotSwitches(switches, slot) : s.technology = tech

FitSlot(base, switches, slot) ==
    [tech \in {s.technology : s \in SlotSwitches(switches, slot)} |->
        LET s == SwitchOf(switches, slot, tech)
        IN  fit_sigmoid(base_yr, s.switch_yr, BaseShare(base, tech),
                        s.share_ey, tech_max_share(tech))]

SW_Fit ==
    /\ sw_pc = "fit"
    /\ sw_curves' = [slot \in SwitchSlots |->
                        FitSlot(sw_base_shares, sw_switches, slot)]
    /\ sw_pc' = "resolve"
    /\ UNCHANGED <<sw_base_shares, sw_switches, sw_err, sw_resolved>>
    /\ UNCHANGED notSwitch

\* ---- steps 2 and 4: donors give way in proportion to their base share;
\* the drift of the total is absorbed by the largest share

LargestTech(shares) ==
    CHOOSE t \in DOMAIN shares : \A u \in DOMAIN shares : shares[u] <= shares[t]

AbsorbDrift(shares) ==
    LET t == LargestTech(shares)
    IN  [shares EXCEPT ![t] = shares[t] + (ShareOne - SumFn(shares))]

ResolveYear(base, curves, year) ==
    LET gainers == DOMAIN curves
        donors == (DOMAIN base) \ gainers
        gain == [t \in gainers |-> evaluate(curves[t].curve, year)]
        donor_base == SumOver(base, donors)
        remaining == ShareOne - SumFn(gain)
        raw == [t \in gainers \cup donors |->
                  IF t \in gainers THEN gain[t]
                  ELSE IF donor_base = 0 THEN 0
                  ELSE (remaining * base[t]) \div donor_base]
    IN  AbsorbDrift(raw)

\* a variant that replaces a failed fit by the base-year shares of every year
ResolveSlot_silent_default(base, curves) ==
    IF \E t \in DOMAIN curves : curves[t].err # "none"
    THEN [err |-> "none", shares |-> [year \in sim_yrs_grid |-> base]]
    ELSE [err |-> "none",
          shares |-> [year \in sim_yrs_grid |-> ResolveYear(base, curves, year)]]

\* a failed fit is the error value of its slot
ResolveSlot(base, curves) ==
    IF \E t \in DOMAIN curves : curves[t].err # "none"
    THEN [err |-> "SigmoidFitError", shares |-> EmptyDict]
    ELSE [err |-> "none",
          shares |-> [year \in sim_yrs_grid |-> ResolveYear(base, curves, year)]]

SW_Resolve ==
    /\ sw_pc = "resolve"
    /\ sw_resolved' = [slot \in SwitchSlots |->
                          ResolveSlot(sw_base_shares, sw_curves[slot])]
    /\ sw_pc' = "done"
    /\ UNCHANGED <<sw_base_shares, sw_switches, sw_err, sw_curves>>
    /\ UNCHANGED notSwitch

NextSwitch ==
    \/ SW_Validate
    \/ SW_Fit
    \/ SW_Resolve

-----------------------------------------------------------------------------
(* The driver (main.py) and WeatherRegion.__init__ (weather_region.py)     *)

\* sim_yrs of main.py
main_sim_yrs == <<2015, 2030, 2050>>

RECURSIVE SortedSeq(_)
\* the members of a set of integers in increasing order
SortedSeq(S) ==
    IF S = {} THEN <<>>
    ELSE LET m == CHOOSE x \in S : \A y \in S : x <= y
         IN <<m>> \o SortedSeq(S \ {m})

\* the runs the driver is started with: one year alone, or any years of
\* main_sim_yrs in their order
SimYrsChoices ==
    {SortedSeq({main_sim_yrs[i] : i \in I}) :
        I \in (SUBSET (1..Len(main_sim_yrs))) \ {{}}}

\* the year the efficiencies and the scenario changes are fully reached
simulation_end_yr == main_sim_yrs[Len(main_sim_yrs)]

DayRange == 1..Days

HourRange == 1..Hours

\* temperatures are counted in units of 0.5 degC
ColdT == 2 * 4

WarmT == 2 * 20

\* the temperature courses of a day in the input data: cold, warm, and
\* alternating between the two from hour to hour, starting cold or warm
DayTemps ==
    {[h \in HourRange |-> ColdT],
     [h \in HourRange |-> WarmT],
     [h \in HourRange |-> IF h % 2 = 1 THEN ColdT ELSE WarmT],
     [h \in HourRange |-> IF h % 2 = 1 THEN WarmT ELSE ColdT]}

\* t_bases of Assumptions, in 0.5 degC
rs_t_heating_by == 31

ss_t_heating_by == 31

ss_t_cooling_by == 10

is_t_heating_by == 31

\* weekend factors of Assumptions
f_ss_cooling_weekend == <<9, 20>>

f_ss_weekend == <<4, 5>>

f_is_weekend == <<9, 20>>

\* the scenario: strategy_variables[...]['scenario_value'], temperatures
\* in 0.5 degC
strategy_variables ==
    [f_eff_achieved |-> ROne,
     gshp_fraction |-> Rat(1, 10),
     climate_change_temp_d |-> 7,
     climate_change_temp_diff_yr_until_changed |-> simulation_end_yr,
     rs_t_base_heating_future_yr |-> rs_t_heating_by,
     ss_t_base_heating_future_yr |-> ss_t_heating_by - 7,
     ss_t_base_cooling_future_yr |-> ss_t_cooling_by,
     is_t_base_heating_future_yr |-> is_t_heating_by]

\* non_regional_vars['f_eff_achieved'][sim_yr] and ['gshp_fraction'][sim_yr]
non_regional_vars ==
    [f_eff_achieved |-> [y \in {2015, 2030, 2050} |->
                            IF y = 2015 THEN RZero
                            ELSE IF y = 2030 THEN Rat(1, 2) ELSE ROne],
     gshp_fraction  |-> [y \in {2015, 2030, 2050} |->
                            IF y = 2015 THEN Rat(1, 10)
                            ELSE IF y = 2030 THEN Rat(1, 5) ELSE Rat(1, 2)]]

\* a value not yet assigned
None == <<>>

\* numpy's nan
NaN == <<0, 0>>

\* ---- arrays

\* elementwise product of two daily arrays
MulYd(a, b) == [d \in DOMAIN a |-> RMul(a[d], b[d])]

SumYd(a) == RSumOver(a, DOMAIN a)

SumHours(row) == RSumOver(row, DOMAIN row)

\* sum of a [day][hour] array
SumYh(a) == RSumOver([d \in DOMAIN a |-> SumHours(a[d])], DOMAIN a)

\* load_profile.abs_to_rel: the array divided by its sum; an array that sums
\* to zero is returned as it is
abs_to_rel(a) ==
    LET total == SumYd(a)
    IN IF total = RZero THEN a ELSE [d \in DOMAIN a |-> RDiv(a[d], total)]

\* abs_to_rel of a [day][hour] array
abs_to_rel_yh(a) ==
    LET total == SumYh(a)
    IN IF total = RZero THEN a
       ELSE [d \in DOMAIN a |-> [h \in DOMAIN a[d] |-> RDiv(a[d][h], total)]]

\* load_profile.calc_yh: the daily shape spread over the hours of each day
\* with the technology's daily profile
calc_yh(shape_yd, profile_y_dh) ==
    [d \in DOMAIN shape_yd |->
        [h \in HourRange |-> RMul(shape_yd[d], profile_y_dh[d][h])]]

\* ---- diffusion and degree days

\* diffusion_technologies.linear_diff
linear_diff(by, cy, value_start, value_end, yr_until_changed) ==
    IF cy = by \/ yr_until_changed = by THEN value_start
    ELSE RAdd(value_start,
              RMul(RDiv(RSub(value_end, value_start), RInt(yr_until_changed - by)),
                   RInt(cy - by)))

\* change_temp_climate: the temperatures of the current year
change_temp_climate(temp_data, strategy, by, cy) ==
    LET lin_diff_factor ==
            linear_diff(by, cy, RZero, RInt(strategy.climate_change_temp_d),
                        strategy.climate_change_temp_diff_yr_until_changed)
    IN [d \in DOMAIN temp_data |->
          [h \in DOMAIN temp_data[d] |-> RAdd(temp_data[d][h], lin_diff_factor)]]

\* hdd_cdd.sigm_temp: the base temperature of the current year
sigm_temp(t_future_yr, t_base_by, by, cy) ==
    LET t_base_frac == linear_diff(by, cy, RZero, ROne, simulation_end_yr)
    IN RAdd(RInt(t_base_by), RMul(RInt(t_future_yr - t_base_by), t_base_frac))

RMax0(a) == IF RLt(a, RZero) THEN RZero ELSE a

\* hdd_cdd.calc_reg_hdd: heating degree days per day, and their yd shape
calc_reg_hdd(temperatures, t_base) ==
    LET hdd_d == [d \in DOMAIN temperatures |->
                    RDiv(RSumOver([h \in HourRange |->
                                     RMax0(RSub(t_base, temperatures[d][h]))],
                                  HourRange),
                         RInt(Hours))]
    IN [dd |-> hdd_d, shape_yd |-> abs_to_rel(hdd_d)]

\* hdd_cdd.calc_reg_cdd: cooling degree days per day, and their yd shape
calc_reg_cdd(temperatures, t_base) ==
    LET cdd_d == [d \in DOMAIN temperatures |->
                    RDiv(RSumOver([h \in HourRange |->
                                     RMax0(RSub(temperatures[d][h], t_base))],
                                  HourRange),
                         RInt(Hours))]
    IN [dd |-> cdd_d, shape_yd |-> abs_to_rel(cdd_d)]

\* hdd_cdd.calc_weekend_corr_f: the factor on holidays, 1 on working days
calc_weekend_corr_f(model_yeardays_daytype, wkend_factor) ==
    [d \in DOMAIN model_yeardays_daytype |->
        IF model_yeardays_daytype[d] = "holiday" THEN wkend_factor ELSE ROne]

RMaxOver(a) ==
    CHOOSE m \in {a[d] : d \in DOMAIN a} : \A d \in DOMAIN a : RLe(a[d], m)

\* a variant that relates the maximum to the number of days
get_shape_peak_yd_factor_per_day(demand_yd) ==
    RDiv(RMaxOver(demand_yd), RInt(Cardinality(DOMAIN demand_yd)))

\* get_shape_peak_yd_factor
get_shape_peak_yd_factor(demand_yd) ==
    LET tot_demand_y == SumYd(demand_yd)
        max_demand_d == RMaxOver(demand_yd)
    IN IF tot_demand_y = RZero THEN NaN ELSE RDiv(max_demand_d, tot_demand_y)

\* the try block of the climate correction factors: 1.0 / float(sum) raises
\* ZeroDivisionError for a zero sum, and the handler resets both factors
climate_factors(hdd_by, hdd_cy, cooling_known, cdd_by, cdd_cy) ==
    IF SumYd(hdd_by) = RZero THEN [f_heat |-> ROne, f_cooling |-> ROne]
    ELSE IF ~cooling_known
         THEN [f_heat |-> RDiv(SumYd(hdd_cy), SumYd(hdd_by)), f_cooling |-> ROne]
    ELSE IF SumYd(cdd_by) = RZero THEN [f_heat |-> ROne, f_cooling |-> ROne]
    ELSE [f_heat    |-> RDiv(SumYd(hdd_cy), SumYd(hdd_by)),
          f_cooling |-> RDiv(SumYd(cdd_cy), SumYd(cdd_by))]

\* ---- technologies and the per-year update of the assumptions

\* Assumptions.tech_list
tech_lists ==
    [heating_const                 |-> {"boiler_gas", "boiler_condensing_gas"},
     tech_CHP                      |-> {"chp_gas"},
     storage_heating_electricity   |-> {"storage_heater_electricity"},
     secondary_heating_electricity |-> {"secondary_heater_electricity"},
     heating_non_const             |-> {"heat_pumps_electricity"},
     tech_district_heating         |-> {"district_heating_electricity"},
     cooling_const                 |-> {"central_air_conditioner"}]

\* Assumptions.technologies as read by read_data.read_technologies, with
\* the averaged heat pump of generate_heat_pump_from_split
InitialTechnologies ==
    [boiler_gas |->
        [fuel_type |-> "gas", eff_by |-> Rat(4, 5), eff_ey |-> Rat(87, 100),
         year_eff_ey |-> 2050,
         eff_achieved |-> ROne, diff_method |-> "linear"],
     boiler_condensing_gas |->
        [fuel_type |-> "gas", eff_by |-> Rat(4, 5), eff_ey |-> Rat(87, 100),
         year_eff_ey |-> 2030,
         eff_achieved |-> ROne, diff_method |-> "linear"],
     heat_pump_ASHP_electricity |->
        [fuel_type |-> "electricity", eff_by |-> RInt(2), eff_ey |-> Rat(64, 25),
         year_eff_ey |-> 2050,
         eff_achieved |-> ROne, diff_method |-> "linear"],
     heat_pump_GSHP_electricity |->
        [fuel_type |-> "electricity", eff_by |-> RInt(2), eff_ey |-> Rat(163, 50),
         year_eff_ey |-> 2050,
         eff_achieved |-> ROne, diff_method |-> "linear"],
     heat_pumps_electricity |->
        [fuel_type |-> "electricity", eff_by |-> RInt(2), eff_ey |-> Rat(263, 100),
         year_eff_ey |-> 2050,
         eff_achieved |-> ROne, diff_method |-> "linear"]]

\* a variant that writes the factor only where none was achieved before
set_same_eff_all_tech_where_zero(techs, f_eff_achieved) ==
    [t \in DOMAIN techs |->
        IF techs[t].eff_achieved = RZero
        THEN [techs[t] EXCEPT !.eff_achieved = f_eff_achieved]
        ELSE techs[t]]

\* helpers.set_same_eff_all_tech: one achieved-efficiency factor for all
set_same_eff_all_tech(techs, f_eff_achieved) ==
    [t \in DOMAIN techs |-> [techs[t] EXCEPT !.eff_achieved = f_eff_achieved]]

\* tech_related.generate_ashp_gshp_split
generate_ashp_gshp_split(gshp_fraction) ==
    [heat_pump_ASHP_electricity |-> RSub(ROne, gshp_fraction),
     heat_pump_GSHP_electricity |-> gshp_fraction]

\* tech_related.calc_av_heat_pump_eff_ey: the end-year efficiency of the
\* averaged heat pump from the split of ASHP and GSHP
calc_av_heat_pump_eff_ey(techs, installed_heat_pump_ey) ==
    LET av_eff_hps_ey ==
            RSumOver([t \in DOMAIN installed_heat_pump_ey |->
                        RMul(installed_heat_pump_ey[t], techs[t].eff_ey)],
                     DOMAIN installed_heat_pump_ey)
    IN [techs EXCEPT !["heat_pumps_electricity"].eff_ey = av_eff_hps_ey]

\* a variant that adds the year's factor to the factor already stored
update_technology_assumption_accumulate(techs, f_eff_achieved, gshp_fraction_ey) ==
    calc_av_heat_pump_eff_ey(
        [t \in DOMAIN techs |->
            [techs[t] EXCEPT !.eff_achieved = RAdd(@, f_eff_achieved)]],
        generate_ashp_gshp_split(gshp_fraction_ey))

\* general_assumptions.update_technology_assumption
update_technology_assumption(techs, f_eff_achieved, gshp_fraction_ey) ==
    calc_av_heat_pump_eff_ey(
        set_same_eff_all_tech(techs, f_eff_achieved),
        generate_ashp_gshp_split(gshp_fraction_ey))

\* ---- technological_stock.py

\* the lookups TechStock is given (fueltypes): the number of a fueltype
lookups ==
    [fueltype |-> [solid_fuel |-> 0, gas |-> 1, electricity |-> 2, oil |-> 3,
                   hydrogen |-> 4]]

\* tech_related.get_fueltype_int
get_fueltype_int(fueltypes, fueltype_string) == fueltypes[fueltype_string]

\* tech_related.get_tech_type: the type of a technology by the list of
\* tech_list that names it; a placeholder is of the type dummy_tech
get_tech_type(technology_name, tech_list) ==
    IF \/ technology_name = "dummy_tech"
       \/ /\ "dummy_tech" \in DOMAIN tech_list
          /\ technology_name \in tech_list.dummy_tech
    THEN "dummy_tech"
    ELSE IF technology_name \in tech_list.heating_non_const THEN "heat_pump"
    ELSE IF technology_name \in tech_list.heating_const THEN "boiler"
    ELSE "other"

\* assumptions['heat_pump_slope_assumption'], per degC
heat_pump_slope_assumption == Rat(-2, 25)

\* tech_related.calc_hp_eff: eff_flat + slope * (t - balance) for every hour
calc_hp_eff(temp_yh, efficiency_intersect, t_base_heating) ==
    [d \in DOMAIN temp_yh |->
        [h \in DOMAIN temp_yh[d] |->
            RAdd(efficiency_intersect,
                 RMul(heat_pump_slope_assumption,
                      RDiv(RSub(temp_yh[d][h], t_base_heating), RInt(2))))]]

\* tech_related.calc_eff_cy, diff_method linear
calc_eff_cy(by, cy, eff_by, eff_ey, eff_achieved) ==
    LET theor_max_eff == linear_diff(by, cy, eff_by, eff_ey, simulation_end_yr)
    IN RAdd(eff_by, RMul(RSub(theor_max_eff, eff_by), eff_achieved))

\* a variant that gives a heat pump the same efficiency in every hour
Technology_scalar_hp(tech_name, tech_type, t, by, cy, lookups_, temp_by_, temp_cy_, t_base_by, t_base_cy) ==
    IF tech_name = "dummy_tech"
    THEN [tech_name |-> tech_name, tech_type |-> tech_type]
    ELSE IF "fueltype" \notin DOMAIN lookups_
    THEN [err |-> "TypeError", tech_name |-> tech_name, tech_type |-> tech_type]
    ELSE LET eff_cy_flat == calc_eff_cy(by, cy, t.eff_by, t.eff_ey, t.eff_achieved)
         IN [tech_name           |-> tech_name,
             tech_type           |-> tech_type,
             tech_fueltype       |-> t.fuel_type,
             tech_fueltype_int   |-> get_fueltype_int(lookups_.fueltype,
                                                      t.fuel_type),
             tech_eff_achieved_f |-> t.eff_achieved,
             diff_method         |-> t.diff_method,
             eff_by |-> IF tech_type = "heat_pump"
                        THEN [d \in DOMAIN temp_by_ |->
                                [h \in DOMAIN temp_by_[d] |-> t.eff_by]]
                        ELSE t.eff_by,
             eff_cy |-> IF tech_type = "heat_pump"
                        THEN [d \in DOMAIN temp_cy_ |->
                                [h \in DOMAIN temp_cy_[d] |-> eff_cy_flat]]
                        ELSE eff_cy_flat]

\* Technology.__init__, t the attributes of the technology the caller
\* passes; arguments left out are None, and lookups['fueltype'] of None
\* raises TypeError
Technology(tech_name, tech_type, t, by, cy, lookups_, temp_by_, temp_cy_, t_base_by, t_base_cy) ==
    IF tech_name = "dummy_tech"
    THEN [tech_name |-> tech_name, tech_type |-> tech_type]
    ELSE IF "fueltype" \notin DOMAIN lookups_
    THEN [err |-> "TypeError", tech_name |-> tech_name, tech_type |-> tech_type]
    ELSE LET eff_cy_flat == calc_eff_cy(by, cy, t.eff_by, t.eff_ey, t.eff_achieved)
         IN [tech_name           |-> tech_name,
             tech_type           |-> tech_type,
             tech_fueltype       |-> t.fuel_type,
             tech_fueltype_int   |-> get_fueltype_int(lookups_.fueltype,
                                                      t.fuel_type),
             tech_eff_achieved_f |-> t.eff_achieved,
             diff_method         |-> t.diff_method,
             eff_by |-> IF tech_type = "heat_pump"
                        THEN calc_hp_eff(temp_by_, t.eff_by, t_base_by)
                        ELSE t.eff_by,
             eff_cy |-> IF tech_type = "heat_pump"
                        THEN calc_hp_eff(temp_cy_, eff_cy_flat, t_base_cy)
                        ELSE eff_cy_flat]

\* the technologies of the enduses of each submodel
specified_tech_enduse_by ==
    [rs_tech_stock |-> [rs_space_heating |-> {"boiler_gas", "boiler_condensing_gas",
                                              "heat_pumps_electricity"},
                        rs_lighting      |-> {"dummy_tech"}],
     ss_tech_stock |-> [ss_space_heating |-> {"boiler_gas"}],
     is_tech_stock |-> [is_space_heating |-> {"boiler_gas",
                                              "heat_pumps_electricity"}]]

\* a variant that keeps a technology under one enduse only
StockKeys_one_enduse(enduse_technologies) ==
    {k \in (UNION {enduse_technologies[e] : e \in DOMAIN enduse_technologies})
            \X (DOMAIN enduse_technologies) :
        k[2] = CHOOSE e \in DOMAIN enduse_technologies :
                  k[1] \in enduse_technologies[e]}

\* the keys (technology_name, enduse) create_tech_stock writes
StockKeys(enduse_technologies) ==
    {k \in (UNION {enduse_technologies[e] : e \in DOMAIN enduse_technologies})
            \X (DOMAIN enduse_technologies) :
        k[1] \in enduse_technologies[k[2]]}

\* one dictionary shared by every call
module_level_dict(heap_) == 1

\* stock_technologies = {}: a new dictionary for every call
new_stock_dict(heap_) == Cardinality(DOMAIN heap_) + 1

\* the object create_tech_stock builds for a technology
StockTechnology(technology_name, tech_list, techs, by, cy, lookups_, temp_by_, temp_cy_, t_base_by, t_base_cy) ==
    LET tech_type == get_tech_type(technology_name, tech_list)
    IN IF tech_type = "dummy_tech"
       THEN Technology(technology_name, tech_type, None, None, None, None,
                       None, None, None, None)
       ELSE Technology(technology_name, tech_type, techs[technology_name],
                       by, cy, lookups_, temp_by_, temp_cy_, t_base_by,
                       t_base_cy)

\* create_tech_stock: the heap after the call, and the dictionary returned;
\* an exception of a constructor ends the call
create_tech_stock(heap_, tech_list, techs, by, cy, lookups_, temp_by_, temp_cy_, t_base_by, t_base_cy, enduses) ==
    LET id == new_stock_dict(heap_)
        before == IF id \in DOMAIN heap_ THEN heap_[id] ELSE EmptyDict
        written ==
            [k \in StockKeys(enduses) |->
                StockTechnology(k[1], tech_list, techs, by, cy, lookups_,
                                temp_by_, temp_cy_, t_base_by, t_base_cy)]
        raised == {k \in DOMAIN written : "err" \in DOMAIN written[k]}
    IN IF raised # {}
       THEN [heap |-> heap_, id |-> 0,
             err |-> written[CHOOSE k \in raised : TRUE].err]
       ELSE [heap |-> (id :> (written @@ before)) @@ heap_, id |-> id,
             err |-> "none"]

\* the attribute names get_tech_attr compares attribute_to_get with
get_tech_attr_names ==
    {"tech_fueltype", "tech_type", "tech_fueltype_int", "eff_cy", "eff_by",
     "tech_low_temp", "tech_low_temp_fueltype", "tech_high_temp_fueltype",
     "fueltype_share_yh_all_h"}

\* TechStock.get_tech_attr: the attribute of the object, AttributeError
\* where the object has none of that name, sys.exit for any other name
get_tech_attr(stock_technologies, enduse, tech_name, attribute_to_get) ==
    LET tech_object == stock_technologies[<<tech_name, enduse>>]
    IN IF attribute_to_get \notin get_tech_attr_names
       THEN [outcome |-> "sys.exit"]
       ELSE IF attribute_to_get \notin DOMAIN tech_object
       THEN [outcome |-> "AttributeError"]
       ELSE [outcome |-> "return",
             attribute_value |-> tech_object[attribute_to_get]]

\* TechStock.get_tech_attr(enduse, tech_name, 'eff_cy')
get_tech_attr_eff_cy(stock_technologies, enduse, tech_name) ==
    stock_technologies[<<tech_name, enduse>>].eff_cy

\* ---- load profiles

\* daily profiles of the technologies: every day sums to 1 over its hours
FlatDh == [h \in HourRange |-> Rat(1, Hours)]

RisingDh == [h \in HourRange |-> Rat(2 * h, Hours * (Hours + 1))]

FallingDh == [h \in HourRange |-> Rat(2 * (Hours + 1 - h), Hours * (Hours + 1))]

EveryDay(row) == [d \in DayRange |-> row]

\* tech_lp: the technology load profiles read from file
tech_lp ==
    [rs_profile_boilers_y_dh        |-> EveryDay(FlatDh),
     rs_profile_chp_y_dh            |-> EveryDay(RisingDh),
     rs_profile_storage_heater_y_dh |-> EveryDay(FallingDh),
     rs_profile_elec_heater_y_dh    |-> EveryDay(FlatDh),
     rs_profile_hp_y_dh             |-> EveryDay(RisingDh),
     ss_all_tech_shapes_dh          |->
        [ss_space_heating |-> [shape_non_peak_y_dh |-> EveryDay(RisingDh)]],
     ss_profile_cooling_y_dh        |-> EveryDay(FallingDh)]

sectors == [ss_sectors |-> <<"offices", "retail">>, is_sectors |-> <<"mining">>]

ss_enduse_space_cooling == <<"ss_cooling_humidification">>

\* Assumptions: the weekend correction factors of every modelled day
cdd_weekend_cfactors == calc_weekend_corr_f(daytype, f_ss_cooling_weekend)

ss_weekend_f == calc_weekend_corr_f(daytype, f_ss_weekend)

is_weekend_f == calc_weekend_corr_f(daytype, f_is_weekend)

\* LoadProfileStock.add_lp
add_lp(stock, technologies_, enduses, sectors_, shape_yd, shape_yh, f_peak_yd) ==
    Append(stock, [technologies |-> technologies_, enduses |-> enduses,
                   sectors |-> sectors_, shape_yd |-> shape_yd,
                   shape_yh |-> shape_yh, f_peak_yd |-> f_peak_yd])

\* a variant that takes the raw degree days as the fuel of a day
hp_fuel_yh_raw_hdd(tech_lp_y_dh, stock_technologies, rs_hdd_cy) ==
    [d \in DOMAIN rs_hdd_cy |->
        [h \in HourRange |-> RMul(rs_hdd_cy[d], tech_lp_y_dh[d][h])]]

\* the hourly heat pump fuel before it is made relative
hp_fuel_yh(tech_lp_y_dh, stock_technologies, rs_hdd_cy) ==
    LET tech_eff == get_tech_attr_eff_cy(stock_technologies, "rs_space_heating",
                                         "heat_pumps_electricity")
    IN [d \in DOMAIN rs_hdd_cy |->
          [h \in HourRange |->
              RMul(RDiv(rs_hdd_cy[d], tech_eff[d][h]), tech_lp_y_dh[d][h])]]

\* a variant that returns the absolute hourly fuel
get_fuel_shape_heating_hp_yh_abs(tech_lp_y_dh, stock_technologies, rs_hdd_cy) ==
    LET shape_yh_hp == hp_fuel_yh(tech_lp_y_dh, stock_technologies, rs_hdd_cy)
    IN [shape_yh |-> shape_yh_hp, shape_y_dh |-> shape_yh_hp]

\* get_fuel_shape_heating_hp_yh
get_fuel_shape_heating_hp_yh(tech_lp_y_dh, stock_technologies, rs_hdd_cy) ==
    LET shape_yh_hp == hp_fuel_yh(tech_lp_y_dh, stock_technologies, rs_hdd_cy)
    IN [shape_yh   |-> abs_to_rel_yh(shape_yh_hp),
        shape_y_dh |-> [d \in DOMAIN shape_yh_hp |-> abs_to_rel(shape_yh_hp[d])]]

\* ss_get_sector_enduse_shape
ss_get_sector_enduse_shape(tech_lps, heating_lp_yd, enduse) ==
    IF enduse \notin DOMAIN tech_lps
    THEN [err |-> "UnboundLocalError",
          shape_yh |-> [d \in DayRange |-> [h \in HourRange |-> RZero]],
          shape_y_dh |-> None]
    ELSE [err |-> "none",
          shape_yh |-> calc_yh(heating_lp_yd, tech_lps[enduse].shape_non_peak_y_dh),
          shape_y_dh |-> tech_lps[enduse].shape_non_peak_y_dh]

\* a variant that makes the shape relative before the factor is applied
apply_weekend_f_after_abs_to_rel(shape_yd, weekend_f) ==
    MulYd(abs_to_rel(shape_yd), weekend_f)

\* the weekend correction of a daily shape: the factor is applied, then the
\* whole year is made relative again
apply_weekend_f(shape_yd, weekend_f) == abs_to_rel(MulYd(shape_yd, weekend_f))

RECURSIVE ss_cooling_loop(_, _, _, _)
\* the loop over cooling enduses and sectors: the daily shape is corrected
\* and registered once per (enduse, sector)
ss_cooling_loop(pairs, ss_fuel_shape_coolin_yd, stock, f_peak_yd) ==
    IF pairs = <<>> THEN [yd |-> ss_fuel_shape_coolin_yd, stock |-> stock]
    ELSE LET yd == apply_weekend_f(ss_fuel_shape_coolin_yd, cdd_weekend_cfactors)
             ss_shape_yh == calc_yh(yd, tech_lp.ss_profile_cooling_y_dh)
         IN ss_cooling_loop(
                Tail(pairs), yd,
                add_lp(stock, tech_lists.cooling_const, <<Head(pairs)[1]>>,
                       <<Head(pairs)[2]>>, yd, ss_shape_yh, f_peak_yd),
                f_peak_yd)

\* the (cooling enduse, sector) pairs in the order of the nested loops
CoolingPairs ==
    [i \in 1..(Len(ss_enduse_space_cooling) * Len(sectors.ss_sectors)) |->
        <<ss_enduse_space_cooling[((i - 1) \div Len(sectors.ss_sectors)) + 1],
          sectors.ss_sectors[((i - 1) % Len(sectors.ss_sectors)) + 1]>>]

\* list(tech_lists.values()) flattened
all_techs == UNION {tech_lists[k] : k \in DOMAIN tech_lists}

\* ---- the driver

\* a variant in which the yearly model runs come first
MainSteps_runs_first ==
    <<"update_technology_assumption", "model_runs", "switch_calculations",
      "store_regional_vars">>

\* the steps of the driver in program order
MainSteps ==
    <<"update_technology_assumption", "switch_calculations",
      "store_regional_vars", "model_runs">>

AtMain(step) == main_i \in 1..Len(MainSteps) /\ MainSteps[main_i] = step

\* the steps of WeatherRegion.__init__ in program order
WeatherRegionSteps ==
    <<"temperatures", "rs_tech_stock", "ss_tech_stock", "is_tech_stock",
      "rs_hdd", "rs_heating_const_lp", "rs_heat_pump_lp",
      "rs_district_heating_lp", "ss_hdd_cdd", "ss_space_heating_lp",
      "ss_cooling_lp", "is_space_heating_lp">>

AtWR(step) ==
    /\ AtMain("model_runs")
    /\ wr_i \in 1..Len(WeatherRegionSteps)
    /\ WeatherRegionSteps[wr_i] = step

\* a WeatherRegion object before its constructor has assigned anything
WRBlank ==
    [temp_cy |-> None,
     rs_t_base_heating_cy |-> None, ss_t_base_heating_cy |-> None,
     ss_t_base_cooling_cy |-> None, is_t_base_heating_cy |-> None,
     rs_hdd_by |-> None, rs_hdd_cy |-> None, rs_fuel_shape_heating_yd |-> None,
     f_heat_rs_y |-> None, f_cooling_rs_y |-> None,
     rs_peak_yd_heating_factor |-> None,
     ss_hdd_by |-> None, ss_hdd_cy |-> None, ss_cdd_by |-> None, ss_cdd_cy |-> None,
     ss_fuel_shape_heating_yd |-> None, ss_fuel_shape_coolin_yd |-> None,
     f_heat_ss_y |-> None, f_cooling_ss_y |-> None,
     ss_peak_yd_heating_factor |-> None, ss_peak_yd_cooling_factor |-> None,
     is_hdd_by |-> None, is_hdd_cy |-> None, is_fuel_shape_heating_yd |-> None,
     f_heat_is_y |-> None, f_cooling_is_y |-> None]

NoProfiles ==
    [rs_load_profiles |-> <<>>, ss_load_profiles |-> <<>>, is_load_profiles |-> <<>>]

InitDriver ==
    /\ main_i = 1
    /\ sim_yrs \in SimYrsChoices
    /\ yr_i = 1
    /\ curr_yr = base_yr
    /\ technologies = InitialTechnologies
    /\ regional_vars = EmptyDict
    /\ annual_tech_diff_params = EmptyDict
    /\ temp_by \in [DayRange -> {[h \in HourRange |-> RInt(p[h])] : p \in DayTemps}]
    /\ daytype \in [DayRange -> {"working_day", "holiday"}]
    /\ wr_i = 0
    /\ wr = WRBlank
    /\ load_profiles = NoProfiles
    /\ heap = EmptyDict
    /\ stock_ref = EmptyDict

IdleDriver ==
    /\ main_i = 0
    /\ sim_yrs = <<>>
    /\ yr_i = 0
    /\ curr_yr = base_yr
    /\ technologies = EmptyDict
    /\ regional_vars = EmptyDict
    /\ annual_tech_diff_params = EmptyDict
    /\ temp_by = <<>>
    /\ daytype = <<>>
    /\ wr_i = 0
    /\ wr = WRBlank
    /\ load_profiles = NoProfiles
    /\ heap = EmptyDict
    /\ stock_ref = EmptyDict

inputVars == <<sim_yrs, temp_by, daytype>>

wrVars == <<wr_i, wr, load_profiles, heap, stock_ref>>

\* init_scripts.switch_calculations: the diffusion of the switched
\* technology for every simulated year
switch_calculations(years) ==
    LET fit == fit_sigmoid(base_yr, 2030, 0, (3 * ShareOne) \div 10,
                           tech_max_share("heat_pump"))
    IN [y \in {years[i] : i \in DOMAIN years} |-> evaluate(fit.curve, y)]

\* the technology assumptions are set from the strategy variables
M_UpdateTechnologyAssumption ==
    /\ AtMain("update_technology_assumption")
    /\ technologies' =
          update_technology_assumption(technologies,
                                       strategy_variables.f_eff_achieved,
                                       strategy_variables.gshp_fraction)
    /\ main_i' = main_i + 1
    /\ UNCHANGED <<yr_i, curr_yr, regional_vars, annual_tech_diff_params,
                   inputVars, wrVars>>
    /\ UNCHANGED notDriver

M_SwitchCalculations ==
    /\ AtMain("switch_calculations")
    /\ annual_tech_diff_params' = switch_calculations(sim_yrs)
    /\ main_i' = main_i + 1
    /\ UNCHANGED <<yr_i, curr_yr, technologies, regional_vars, inputVars, wrVars>>
    /\ UNCHANGED notDriver

M_StoreRegionalVars ==
    /\ AtMain("store_regional_vars")
    /\ regional_vars' = [annual_tech_diff_params |-> annual_tech_diff_params]
    /\ main_i' = main_i + 1
    /\ UNCHANGED <<yr_i, curr_yr, technologies, annual_tech_diff_params,
                   inputVars, wrVars>>
    /\ UNCHANGED notDriver

\* the head of the year loop: curr_yr is set and the technology assumptions
\* are updated in place, then energy_demand_model is entered
M_YearBegin ==
    /\ AtMain("model_runs")
    /\ wr_i = 0
    /\ yr_i <= Len(sim_yrs)
    /\ curr_yr' = sim_yrs[yr_i]
    /\ technologies' =
          update_technology_assumption(
              technologies,
              non_regional_vars.f_eff_achieved[sim_yrs[yr_i]],
              non_regional_vars.gshp_fraction[sim_yrs[yr_i]])
    /\ wr_i' = 1
    /\ UNCHANGED <<main_i, yr_i, regional_vars, annual_tech_diff_params,
                   inputVars, wr, load_profiles, heap, stock_ref>>
    /\ UNCHANGED notDriver

\* the year loop is exhausted
M_EndModelRuns ==
    /\ AtMain("model_runs")
    /\ wr_i = 0
    /\ yr_i > Len(sim_yrs)
    /\ main_i' = main_i + 1
    /\ UNCHANGED <<yr_i, curr_yr, technologies, regional_vars,
                   annual_tech_diff_params, inputVars, wrVars>>
    /\ UNCHANGED notDriver

\* the constructor moves to its next step; after the last step the model
\* run of the year returns and the loop moves to the next year
WRAdvance ==
    /\ wr_i' = IF wr_i = Len(WeatherRegionSteps) THEN 0 ELSE wr_i + 1
    /\ yr_i' = IF wr_i = Len(WeatherRegionSteps) THEN yr_i + 1 ELSE yr_i
    /\ UNCHANGED <<main_i, curr_yr, technologies, regional_vars,
                   annual_tech_diff_params, inputVars>>
    /\ UNCHANGED notDriver

\* ---- WeatherRegion.__init__

\* the stock_technologies dictionary of a stock of the current year
StockOf(stock_name) == heap[stock_ref[<<curr_yr, stock_name>>]]

\* current-year temperatures and base temperatures
WR_Temperatures ==
    /\ AtWR("temperatures")
    /\ wr' = [WRBlank EXCEPT
          !.temp_cy = change_temp_climate(temp_by, strategy_variables, base_yr, curr_yr),
          !.rs_t_base_heating_cy =
              sigm_temp(strategy_variables.rs_t_base_heating_future_yr,
                        rs_t_heating_by, base_yr, curr_yr),
          !.ss_t_base_heating_cy =
              sigm_temp(strategy_variables.ss_t_base_heating_future_yr,
                        ss_t_heating_by, base_yr, curr_yr),
          !.ss_t_base_cooling_cy =
              sigm_temp(strategy_variables.ss_t_base_cooling_future_yr,
                        ss_t_cooling_by, base_yr, curr_yr),
          !.is_t_base_heating_cy =
              sigm_temp(strategy_variables.is_t_base_heating_future_yr,
                        is_t_heating_by, base_yr, curr_yr)]
    /\ load_profiles' = NoProfiles
    /\ UNCHANGED <<heap, stock_ref>>
    /\ WRAdvance

\* TechStock.__init__: the stock is created and kept under its name
TechStock(stock_name, t_base_heating_by, t_base_heating_cy) ==
    LET made == create_tech_stock(heap, tech_lists, technologies, base_yr,
                                  curr_yr, lookups, temp_by,
                                  wr.temp_cy, RInt(t_base_heating_by),
                                  t_base_heating_cy,
                                  specified_tech_enduse_by[stock_name])
    IN /\ heap' = made.heap
       /\ stock_ref' = (<<curr_yr, stock_name>> :> made.id) @@ stock_ref

WR_RsTechStock ==
    /\ AtWR("rs_tech_stock")
    /\ TechStock("rs_tech_stock", rs_t_heating_by, wr.rs_t_base_heating_cy)
    /\ UNCHANGED <<wr, load_profiles>>
    /\ WRAdvance

WR_SsTechStock ==
    /\ AtWR("ss_tech_stock")
    /\ TechStock("ss_tech_stock", ss_t_heating_by, wr.ss_t_base_heating_cy)
    /\ UNCHANGED <<wr, load_profiles>>
    /\ WRAdvance

WR_IsTechStock ==
    /\ AtWR("is_tech_stock")
    /\ TechStock("is_tech_stock", is_t_heating_by, wr.ss_t_base_heating_cy)
    /\ UNCHANGED <<wr, load_profiles>>
    /\ WRAdvance

\* residential degree days, climate correction and peak factor
WR_RsHdd ==
    /\ AtWR("rs_hdd")
    /\ LET hdd_by == calc_reg_hdd(temp_by, RInt(rs_t_heating_by))
           hdd_cy == calc_reg_hdd(wr.temp_cy, wr.rs_t_base_heating_cy)
           f == climate_factors(hdd_by.dd, hdd_cy.dd, FALSE, None, None)
       IN wr' = [wr EXCEPT
             !.rs_hdd_by = hdd_by.dd,
             !.rs_hdd_cy = hdd_cy.dd,
             !.rs_fuel_shape_heating_yd = hdd_cy.shape_yd,
             !.f_heat_rs_y = f.f_heat,
             !.f_cooling_rs_y = ROne,
             !.rs_peak_yd_heating_factor = get_shape_peak_yd_factor(hdd_cy.dd)]
    /\ load_profiles' = [load_profiles EXCEPT !.rs_load_profiles = <<>>]
    /\ UNCHANGED <<heap, stock_ref>>
    /\ WRAdvance

rs_heating_enduses == <<"rs_space_heating", "rs_water_heating">>

\* a residential profile of a technology list with a constant efficiency
rs_add_lp(stock, tech_list, profile_y_dh) ==
    add_lp(stock, tech_lists[tech_list], rs_heating_enduses, <<"dummy_sector">>,
           wr.rs_fuel_shape_heating_yd,
           calc_yh(wr.rs_fuel_shape_heating_yd, tech_lp[profile_y_dh]),
           wr.rs_peak_yd_heating_factor)

\* boilers, CHP, storage heaters and secondary electric heaters
WR_RsHeatingConstLp ==
    /\ AtWR("rs_heating_const_lp")
    /\ load_profiles' = [load_profiles EXCEPT !.rs_load_profiles =
          rs_add_lp(
            rs_add_lp(
              rs_add_lp(
                rs_add_lp(@, "heating_const", "rs_profile_boilers_y_dh"),
                "tech_CHP", "rs_profile_chp_y_dh"),
              "storage_heating_electricity", "rs_profile_storage_heater_y_dh"),
            "secondary_heating_electricity", "rs_profile_elec_heater_y_dh")]
    /\ UNCHANGED <<wr, heap, stock_ref>>
    /\ WRAdvance

\* heat pumps: the hourly shape comes from the efficiency of the stock
WR_RsHeatPumpLp ==
    /\ AtWR("rs_heat_pump_lp")
    /\ LET hp == get_fuel_shape_heating_hp_yh(tech_lp.rs_profile_hp_y_dh,
                                              StockOf("rs_tech_stock"), wr.rs_hdd_cy)
       IN load_profiles' = [load_profiles EXCEPT !.rs_load_profiles =
             add_lp(@, tech_lists.heating_non_const, rs_heating_enduses,
                    <<"dummy_sector">>, wr.rs_fuel_shape_heating_yd, hp.shape_yh,
                    wr.rs_peak_yd_heating_factor)]
    /\ UNCHANGED <<wr, heap, stock_ref>>
    /\ WRAdvance

\* district heating: the curve of CHP
WR_RsDistrictHeatingLp ==
    /\ AtWR("rs_district_heating_lp")
    /\ load_profiles' = [load_profiles EXCEPT !.rs_load_profiles =
          rs_add_lp(@, "tech_district_heating", "rs_profile_chp_y_dh")]
    /\ UNCHANGED <<wr, heap, stock_ref>>
    /\ WRAdvance

\* service degree days, climate correction and peak factors
WR_SsHddCdd ==
    /\ AtWR("ss_hdd_cdd")
    /\ LET hdd_by == calc_reg_hdd(temp_by, RInt(ss_t_heating_by))
           hdd_cy == calc_reg_hdd(wr.temp_cy, wr.ss_t_base_heating_cy)
           cdd_by == calc_reg_cdd(temp_by, RInt(ss_t_cooling_by))
           cdd_cy == calc_reg_cdd(wr.temp_cy, wr.ss_t_base_cooling_cy)
           f == climate_factors(hdd_by.dd, hdd_cy.dd, TRUE, cdd_by.dd, cdd_cy.dd)
       IN wr' = [wr EXCEPT
             !.ss_hdd_by = hdd_by.dd,
             !.ss_hdd_cy = hdd_cy.dd,
             !.ss_cdd_by = cdd_by.dd,
             !.ss_cdd_cy = cdd_cy.dd,
             !.ss_fuel_shape_heating_yd = hdd_cy.shape_yd,
             !.ss_fuel_shape_coolin_yd = cdd_cy.shape_yd,
             !.f_heat_ss_y = f.f_heat,
             !.f_cooling_ss_y = f.f_cooling,
             !.ss_peak_yd_heating_factor = get_shape_peak_yd_factor(hdd_cy.dd),
             !.ss_peak_yd_cooling_factor = get_shape_peak_yd_factor(cdd_cy.dd)]
    /\ load_profiles' = [load_profiles EXCEPT !.ss_load_profiles = <<>>]
    /\ UNCHANGED <<heap, stock_ref>>
    /\ WRAdvance

\* service space heating: the hourly shape is read first, then the daily
\* shape gets its weekend correction
WR_SsSpaceHeatingLp ==
    /\ AtWR("ss_space_heating_lp")
    /\ LET shape == ss_get_sector_enduse_shape(tech_lp.ss_all_tech_shapes_dh,
                                               wr.ss_fuel_shape_heating_yd,
                                               "ss_space_heating")
           ss_fuel_shape_heating_yd == MulYd(wr.ss_fuel_shape_heating_yd, ss_weekend_f)
           ss_fuel_shape_heating_yd_weighted ==
               apply_weekend_f(wr.ss_fuel_shape_heating_yd, ss_weekend_f)
       IN /\ wr' = [wr EXCEPT !.ss_fuel_shape_heating_yd = ss_fuel_shape_heating_yd]
          /\ load_profiles' = [load_profiles EXCEPT !.ss_load_profiles =
                add_lp(@, all_techs, <<"ss_space_heating">>, sectors.ss_sectors,
                       ss_fuel_shape_heating_yd_weighted, shape.shape_yh,
                       wr.ss_peak_yd_heating_factor)]
    /\ UNCHANGED <<heap, stock_ref>>
    /\ WRAdvance

\* service cooling: one profile per cooling enduse and sector
WR_SsCoolingLp ==
    /\ AtWR("ss_cooling_lp")
    /\ LET done == ss_cooling_loop(CoolingPairs, wr.ss_fuel_shape_coolin_yd,
                                   load_profiles.ss_load_profiles,
                                   wr.ss_peak_yd_cooling_factor)
       IN /\ wr' = [wr EXCEPT !.ss_fuel_shape_coolin_yd = done.yd]
          /\ load_profiles' = [load_profiles EXCEPT !.ss_load_profiles = done.stock]
    /\ UNCHANGED <<heap, stock_ref>>
    /\ WRAdvance

\* industry: degree days, weekend correction, then the hourly shape
WR_IsSpaceHeatingLp ==
    /\ AtWR("is_space_heating_lp")
    /\ LET hdd_by == calc_reg_hdd(temp_by, RInt(is_t_heating_by))
           hdd_cy == calc_reg_hdd(wr.temp_cy, wr.is_t_base_heating_cy)
           f == climate_factors(hdd_by.dd, hdd_cy.dd, FALSE, None, None)
           is_peak_yd_heating_factor == get_shape_peak_yd_factor(hdd_cy.dd)
           is_fuel_shape_heating_yd == apply_weekend_f(hdd_cy.shape_yd, is_weekend_f)
           shape == ss_get_sector_enduse_shape(tech_lp.ss_all_tech_shapes_dh,
                                               is_fuel_shape_heating_yd,
                                               "ss_space_heating")
       IN /\ wr' = [wr EXCEPT
                !.is_hdd_by = hdd_by.dd,
                !.is_hdd_cy = hdd_cy.dd,
                !.is_fuel_shape_heating_yd = is_fuel_shape_heating_yd,
                !.f_heat_is_y = f.f_heat,
                !.f_cooling_is_y = ROne]
          /\ load_profiles' = [load_profiles EXCEPT !.is_load_profiles =
                add_lp(<<>>, all_techs, <<"is_space_heating">>, sectors.is_sectors,
                       is_fuel_shape_heating_yd, shape.shape_yh,
                       is_peak_yd_heating_factor)]
    /\ UNCHANGED <<heap, stock_ref>>
    /\ WRAdvance

NextDriver ==
    \/ M_UpdateTechnologyAssumption
    \/ M_SwitchCalculations
    \/ M_StoreRegionalVars
    \/ M_YearBegin
    \/ M_EndModelRuns
    \/ WR_Temperatures
    \/ WR_RsTechStock
    \/ WR_SsTechStock
    \/ WR_IsTechStock
    \/ WR_RsHdd
    \/ WR_RsHeatingConstLp
    \/ WR_RsHeatPumpLp
    \/ WR_RsDistrictHeatingLp
    \/ WR_SsHddCdd
    \/ WR_SsSpaceHeatingLp
    \/ WR_SsCoolingLp
    \/ WR_IsSpaceHeatingLp

-----------------------------------------------------------------------------
(* Helper functions, called on their own with inputs of every kind they    *)
(* are called with                                                         *)

\* ---- calc_enduse_fuel_tech_by (assumptions.py)

FnFueltypes == {"gas", "electricity", "hydrogen"}

\* the technology shares of one fueltype of an enduse: no technology, one
\* technology, two technologies, and a technology with the share 0.0
FnSlotOptions(tech_a, tech_b) ==
    {EmptyDict,
     DictOf({<<tech_a, ROne>>}),
     DictOf({<<tech_a, Rat(1, 2)>>, <<tech_b, Rat(1, 2)>>}),
     DictOf({<<tech_a, Rat(9, 10)>>, <<tech_b, Rat(1, 10)>>}),
     DictOf({<<tech_a, RZero>>})}

FnTechEnduse ==
    {[gas |-> g, electricity |-> e, hydrogen |-> h] :
        g \in FnSlotOptions("gas_boiler", "gas_boiler_B"),
        e \in {DictOf({<<"elec_boiler", Rat(1, 2)>>, <<"elec_boiler2", Rat(1, 2)>>}),
               DictOf({<<"elec_boiler", Rat(9, 10)>>, <<"elec_boiler2", Rat(1, 10)>>})},
        h \in {EmptyDict, DictOf({<<"hydrogen_boiler", RZero>>})}}

FnEffBy ==
    {[gas_boiler |-> Rat(4, 5), gas_boiler_B |-> gb, elec_boiler |-> ROne,
      elec_boiler2 |-> e2, hydrogen_boiler |-> Rat(4, 5)] :
        gb \in {Rat(4, 5), Rat(9, 10)}, e2 \in {ROne, RInt(2)}}

\* the fuel of every fueltype of the enduse; the enduse uses some fuel
FnFuels == {f \in [FnFueltypes -> 0..MaxFuel] : SumFn(f) # 0}

\* overall_tech_share: the sum of share / efficiency over a fueltype
overall_tech_share(slot, eff_by) ==
    RSumOver([tech \in DOMAIN slot |-> RDiv(slot[tech], eff_by[tech])], DOMAIN slot)

\* share_tech_fueltype
share_tech_fueltype(slot, eff_by, tech) ==
    RMul(RDiv(ROne, overall_tech_share(slot, eff_by)),
         RDiv(slot[tech], eff_by[tech]))

\* calc_enduse_fuel_tech_by: 1.0 / overall_tech_share raises
\* ZeroDivisionError for a fueltype whose shares are all 0.0
calc_enduse_fuel_tech_by(enduses, eff_by, fuels, tech_enduse) ==
    IF \E enduse \in enduses : \E fueltype \in DOMAIN fuels[enduse] :
          /\ tech_enduse[enduse][fueltype] # EmptyDict
          /\ overall_tech_share(tech_enduse[enduse][fueltype], eff_by) = RZero
    THEN [err |-> "ZeroDivisionError", enduse_fuel_tech_by |-> EmptyDict]
    ELSE [err |-> "none",
          enduse_fuel_tech_by |->
            [enduse \in enduses |->
                LET tot_enduse_fuel == RInt(SumFn(fuels[enduse]))
                    techs == UNION {DOMAIN tech_enduse[enduse][f] :
                                        f \in DOMAIN fuels[enduse]}
                IN [tech \in techs |->
                      LET fueltype == CHOOSE f \in DOMAIN fuels[enduse] :
                                          tech \in DOMAIN tech_enduse[enduse][f]
                          fuel_fueltype_tech ==
                              RMul(share_tech_fueltype(tech_enduse[enduse][fueltype],
                                                       eff_by, tech),
                                   RInt(fuels[enduse][fueltype]))
                      IN RMul(RDiv(ROne, tot_enduse_fuel), fuel_fueltype_tech)]]]

CallsCalcEnduseFuelTechBy ==
    {[fn |-> "calc_enduse_fuel_tech_by", enduses |-> {"water_heating"},
      eff_by |-> e, fuels |-> [water_heating |-> f],
      tech_enduse |-> [water_heating |-> t]] :
        e \in FnEffBy, f \in FnFuels, t \in FnTechEnduse}

\* ---- weighted_enduse_efficiency

\* the share-weighted harmonic combination of the efficiencies of a fueltype
weighted_enduse_efficiency(slot, eff_by) ==
    RDiv(ROne, overall_tech_share(slot, eff_by))

CallsWeightedEnduseEfficiency ==
    {[fn |-> "weighted_enduse_efficiency", slot |-> t.electricity, eff_by |-> e] :
        e \in FnEffBy, t \in FnTechEnduse}

\* ---- get_shape_peak_yd_factor (weather_region.py)

CallsGetShapePeakYdFactor ==
    {[fn |-> "get_shape_peak_yd_factor",
      demand_yd |-> [d \in DayRange |-> Rat(q[d], 2)]] :
        q \in [DayRange -> 0..3]}

\* ---- set_same_eff_all_tech (initalisations/helpers.py)

\* the default of tech_eff_achieved_f
tech_eff_achieved_f_default == Rat(1, 2)

FnTechnologyRows ==
    [fuel_type : {"gas"}, eff_by : {Rat(1, 2)}, eff_ey : {Rat(1, 2), Rat(9, 10)},
     year_eff_ey : {2015}, eff_achieved : {RZero, ROne}, diff_method : {"linear"}]

CallsSetSameEffAllTech ==
    {[fn |-> "set_same_eff_all_tech", technologies_ |-> t, given |-> g[1],
      tech_eff_achieved_f |-> g[2]] :
        t \in UNION {[names -> FnTechnologyRows] :
                        names \in {{"tech_a"}, {"boilerA", "tech_a"}}},
        g \in {<<FALSE, None>>, <<TRUE, Rat(2, 5)>>, <<TRUE, ROne>>}}

\* ---- init_dict_brackets (initalisations/helpers.py)

\* the lists of first-level keys
FnKeyLists == {<<"a">>, <<"a", "b">>, <<"b", "a">>, <<"a", "b", "c">>}

\* one dictionary for all keys
shared_empty_dict(i) == 1

\* {} : a new dictionary for the i-th key
new_empty_dict(i) == i

\* init_dict_brackets: every first-level key gets its own empty dictionary
init_dict_brackets(first_level_keys) ==
    [heap |-> [id \in {new_empty_dict(i) : i \in DOMAIN first_level_keys} |->
                  EmptyDict],
     one_level_dict |->
        [k \in {first_level_keys[i] : i \in DOMAIN first_level_keys} |->
            new_empty_dict(CHOOSE i \in DOMAIN first_level_keys :
                              first_level_keys[i] = k)]]

CallsInitDictBrackets ==
    {[fn |-> "init_dict_brackets", first_level_keys |-> k, filled |-> "none"] :
        k \in FnKeyLists}

\* ---- loading a technology row (spec 4.1)

FnRawRows ==
    [name : {"tech_a"}, fuel_type : {"gas", "electricity", "peat"},
     eff_by : {Rat(-1, 2), RZero, Rat(1, 2), ROne, RInt(2), Rat(5, 2)},
     eff_ey : {RZero, Rat(1, 2), RInt(2), Rat(5, 2)},
     year_eff_ey : {2050}, diff_method : {"linear"}]

\* a variant that accepts efficiencies up to 1 only
ValidEfficiency_up_to_one(eff) == RLt(RZero, eff) /\ RLe(eff, ROne)

\* an efficiency in (0, 2]
ValidEfficiency(eff) == RLt(RZero, eff) /\ RLe(eff, RInt(2))

ValidTechnologyRow(row) ==
    /\ row.fuel_type \in fuel_type_lu
    /\ ValidEfficiency(row.eff_by)
    /\ ValidEfficiency(row.eff_ey)

\* load(raw_rows): the registry of the valid rows; the first invalid row
\* fails the load
read_technologies(raw_rows) ==
    IF \E i \in DOMAIN raw_rows : ~ValidTechnologyRow(raw_rows[i])
    THEN [err |-> "InvalidTechnologyData", technologies_ |-> EmptyDict]
    ELSE [err |-> "none",
          technologies_ |->
            [n \in {raw_rows[i].name : i \in DOMAIN raw_rows} |->
                LET row == raw_rows[CHOOSE i \in DOMAIN raw_rows :
                                        raw_rows[i].name = n]
                IN [fuel_type |-> row.fuel_type, eff_by |-> row.eff_by,
                    eff_ey |-> row.eff_ey, year_eff_ey |-> row.year_eff_ey,
                    eff_achieved |-> ROne, diff_method |-> row.diff_method]]]

\* the Technology objects of a stock built from a registry
RegistryStock(registry) ==
    [n \in DOMAIN registry |->
        Technology(n, get_tech_type(n, tech_lists), registry[n], base_yr,
                   base_yr, lookups,
                   [d \in DayRange |-> [h \in HourRange |-> RInt(ColdT)]],
                   [d \in DayRange |-> [h \in HourRange |-> RInt(ColdT)]],
                   RInt(rs_t_heating_by), RInt(rs_t_heating_by))]

CallsReadTechnologies ==
    {[fn |-> "read_technologies", raw_rows |-> <<r>>] : r \in FnRawRows}

\* ---- get_nested_dict_key (initalisations/helpers.py)

\* two-level dictionaries in key order: <<first-level key, <<second-level
\* key, value>> ...>>
FnNestedDicts ==
    {<<<<"a", <<<<"c", 1>>, <<"d", 3>>>>>>, <<"b", <<<<"e", 4>>>>>>>>,
     <<<<"b", <<<<"e", 4>>>>>>, <<"a", <<<<"d", 3>>, <<"c", 1>>>>>>>>,
     <<<<"a", <<<<"c", 1>>>>>>, <<"b", <<<<"c", 2>>, <<"e", 4>>>>>>>>,
     <<<<"a", <<>>>>, <<"b", <<<<"e", 4>>>>>>>>,
     <<<<"a", <<<<"c", 1>>>>>>>>,
     <<>>}

\* list(d.keys())
KeysOf(items) == [i \in DOMAIN items |-> items[i][1]]

RECURSIVE Unique(_)
\* a list without the later occurrences of its elements
Unique(list) ==
    IF list = <<>> THEN <<>>
    ELSE LET front == Unique(SubSeq(list, 1, Len(list) - 1))
             last == list[Len(list)]
         IN IF \E i \in DOMAIN front : front[i] = last THEN front
            ELSE Append(front, last)

RECURSIVE get_nested_dict_key_list(_)
get_nested_dict_key_list(nested_dict) ==
    IF nested_dict = <<>> THEN <<>>
    ELSE KeysOf(nested_dict[1][2])
            \o get_nested_dict_key_list(Tail(nested_dict))

\* every second-level key once
get_nested_dict_key_unique(nested_dict) ==
    Unique(get_nested_dict_key_list(nested_dict))

\* get_nested_dict_key: the second-level keys of every first-level entry
get_nested_dict_key(nested_dict) == get_nested_dict_key_list(nested_dict)

CallsGetNestedDictKey ==
    {[fn |-> "get_nested_dict_key", nested_dict |-> d] : d \in FnNestedDicts}

\* ---- create_tech_stock and get_tech_attr (technological_stock.py)

\* a tech_list that names placeholders other than 'dummy_tech'
tech_lists_placeholders ==
    [dummy_tech |-> {"dummy_tech", "placeholder_tech"}] @@ tech_lists

\* tech_list and the technologies of the enduses of a stock
FnStocks ==
    {<<tech_lists, specified_tech_enduse_by.rs_tech_stock>>,
     <<tech_lists, [rs_space_heating |-> {"boiler_gas", "heat_pumps_electricity"},
                    rs_water_heating |-> {"boiler_gas"}]>>,
     <<tech_lists, [rs_lighting |-> {"dummy_tech"},
                    rs_cooking  |-> {"dummy_tech"}]>>,
     <<tech_lists_placeholders,
       [rs_space_heating |-> {"boiler_gas"}, rs_lighting |-> {"dummy_tech"}]>>,
     <<tech_lists_placeholders,
       [rs_space_heating |-> {"boiler_gas"},
        rs_lighting      |-> {"placeholder_tech"}]>>}

\* the temperatures of the calls: every day from cold to warm
FnTemp == [d \in DayRange |-> [h \in HourRange |->
              RInt(IF h % 2 = 1 THEN ColdT ELSE WarmT)]]

CallsCreateTechStock ==
    {[fn |-> "create_tech_stock", tech_list |-> st[1], technologies_ |-> st[2],
      curr_yr |-> cy] : st \in FnStocks, cy \in {base_yr, simulation_end_yr}}

\* the attribute names asked for: those of get_tech_attr and two others
FnAttributes == get_tech_attr_names \cup {"eff_ey", "tech_name"}

\* ---- get_fuel_shape_heating_hp_yh (weather_region.py)

\* heating degree days of the days: none, few, many
FnHddValues == {RZero, RInt(1), Rat(23, 2)}

\* the stock with the heat pump the function reads eff_cy from
FnHpStock ==
    LET made == create_tech_stock(EmptyDict, tech_lists, InitialTechnologies,
                                  base_yr, simulation_end_yr, lookups, FnTemp,
                                  FnTemp, RInt(rs_t_heating_by),
                                  RInt(rs_t_heating_by),
                                  specified_tech_enduse_by.rs_tech_stock)
    IN made.heap[made.id]

CallsGetFuelShapeHeatingHpYh ==
    {[fn |-> "get_fuel_shape_heating_hp_yh", rs_hdd_cy |-> hdd] :
        hdd \in [DayRange -> FnHddValues]}

\* ---- ss_get_sector_enduse_shape (weather_region.py)

\* daily heating shapes of the calls
FnHeatingLpYd ==
    {[d \in DayRange |-> Rat(1, Days)],
     [d \in DayRange |-> IF d = 1 THEN ROne ELSE RZero],
     [d \in DayRange |-> RZero]}

\* enduses with and without an entry in tech_lps
FnSsEnduses == {"ss_space_heating", "ss_catering", "ss_other_gas"}

CallsSsGetSectorEnduseShape ==
    {[fn |-> "ss_get_sector_enduse_shape", heating_lp_yd |-> yd, enduse |-> e] :
        yd \in FnHeatingLpYd, e \in FnSsEnduses}

\* ---- the calls

InitFn ==
    /\ fn_pc = "call"
    /\ fn_call \in CallsCalcEnduseFuelTechBy \cup CallsWeightedEnduseEfficiency
                    \cup CallsGetShapePeakYdFactor \cup CallsSetSameEffAllTech
                    \cup CallsInitDictBrackets \cup CallsReadTechnologies
                    \cup CallsGetNestedDictKey
                    \cup CallsCreateTechStock
                    \cup CallsGetFuelShapeHeatingHpYh
                    \cup CallsSsGetSectorEnduseShape
    /\ fn_result = None
    /\ fn_heap = EmptyDict

\* no helper function called on its own
IdleFn ==
    /\ fn_pc = "idle"
    /\ fn_call = None
    /\ fn_result = None
    /\ fn_heap = EmptyDict

Calling(fn) == fn_pc = "call" /\ fn_call.fn = fn

Returned(fn) == fn_pc \in {"returned", "filled"} /\ fn_call.fn = fn

Return(result) ==
    /\ fn_result' = result
    /\ fn_pc' = "returned"
    /\ UNCHANGED fn_call
    /\ UNCHANGED notFn

F_CalcEnduseFuelTechBy ==
    /\ Calling("calc_enduse_fuel_tech_by")
    /\ Return(calc_enduse_fuel_tech_by(fn_call.enduses, fn_call.eff_by,
                                       fn_call.fuels, fn_call.tech_enduse))
    /\ UNCHANGED fn_heap

F_WeightedEnduseEfficiency ==
    /\ Calling("weighted_enduse_efficiency")
    /\ Return(weighted_enduse_efficiency(fn_call.slot, fn_call.eff_by))
    /\ UNCHANGED fn_heap

F_GetShapePeakYdFactor ==
    /\ Calling("get_shape_peak_yd_factor")
    /\ Return(get_shape_peak_yd_factor(fn_call.demand_yd))
    /\ UNCHANGED fn_heap

F_SetSameEffAllTech ==
    /\ Calling("set_same_eff_all_tech")
    /\ Return(set_same_eff_all_tech(
                  fn_call.technologies_,
                  IF fn_call.given THEN fn_call.tech_eff_achieved_f
                  ELSE tech_eff_achieved_f_default))
    /\ UNCHANGED fn_heap

F_InitDictBrackets ==
    /\ Calling("init_dict_brackets")
    /\ LET made == init_dict_brackets(fn_call.first_level_keys)
       IN /\ fn_heap' = made.heap
          /\ Return(made.one_level_dict)

\* the dictionary of one first-level key is filled in place
F_FillDict ==
    /\ fn_pc = "returned"
    /\ fn_call.fn = "init_dict_brackets"
    /\ \E k \in DOMAIN fn_result :
          /\ fn_heap' = [fn_heap EXCEPT ![fn_result[k]] = DictOf({<<"gas", 1>>})]
          /\ fn_call' = [fn_call EXCEPT !.filled = k]
    /\ fn_pc' = "filled"
    /\ UNCHANGED fn_result
    /\ UNCHANGED notFn

F_ReadTechnologies ==
    /\ Calling("read_technologies")
    /\ LET loaded == read_technologies(fn_call.raw_rows)
       IN Return([err |-> loaded.err, technologies_ |-> loaded.technologies_,
                  stock |-> RegistryStock(loaded.technologies_)])
    /\ UNCHANGED fn_heap

F_GetNestedDictKey ==
    /\ Calling("get_nested_dict_key")
    /\ Return(get_nested_dict_key(fn_call.nested_dict))
    /\ UNCHANGED fn_heap

F_CreateTechStock ==
    /\ Calling("create_tech_stock")
    /\ LET made == create_tech_stock(fn_heap, fn_call.tech_list,
                                     InitialTechnologies, base_yr,
                                     fn_call.curr_yr, lookups, FnTemp, FnTemp,
                                     RInt(rs_t_heating_by),
                                     RInt(rs_t_heating_by),
                                     fn_call.technologies_)
       IN /\ fn_heap' = made.heap
          /\ Return([id |-> made.id, err |-> made.err])

\* get_tech_attr on the stock create_tech_stock returned
F_GetTechAttr ==
    /\ fn_pc = "returned"
    /\ fn_call.fn = "create_tech_stock"
    /\ fn_result.err = "none"
    /\ \E k \in DOMAIN fn_heap[fn_result.id], a \in FnAttributes :
          fn_result' =
             [id |-> fn_result.id, err |-> fn_result.err,
              enduse |-> k[2], tech_name |-> k[1], attribute_to_get |-> a,
              got |-> get_tech_attr(fn_heap[fn_result.id], k[2], k[1], a)]
    /\ fn_pc' = "got_attr"
    /\ UNCHANGED <<fn_call, fn_heap>>
    /\ UNCHANGED notFn

F_GetFuelShapeHeatingHpYh ==
    /\ Calling("get_fuel_shape_heating_hp_yh")
    /\ Return(get_fuel_shape_heating_hp_yh(tech_lp.rs_profile_hp_y_dh,
                                           FnHpStock, fn_call.rs_hdd_cy))
    /\ UNCHANGED fn_heap

F_SsGetSectorEnduseShape ==
    /\ Calling("ss_get_sector_enduse_shape")
    /\ Return(ss_get_sector_enduse_shape(tech_lp.ss_all_tech_shapes_dh,
                                         fn_call.heating_lp_yd, fn_call.enduse))
    /\ UNCHANGED fn_heap

NextFn ==
    \/ F_CalcEnduseFuelTechBy
    \/ F_WeightedEnduseEfficiency
    \/ F_GetShapePeakYdFactor
    \/ F_SetSameEffAllTech
    \/ F_InitDictBrackets
    \/ F_FillDict
    \/ F_ReadTechnologies
    \/ F_GetNestedDictKey
    \/ F_CreateTechStock
    \/ F_GetTechAttr
    \/ F_GetFuelShapeHeatingHpYh
    \/ F_SsGetSectorEnduseShape

-----------------------------------------------------------------------------
(* Specifications                                                          *)

StartLoad == InitLoad /\ IdleSwitch /\ IdleDriver /\ IdleFn

SpecLoad == StartLoad /\ [][NextLoad]_vars

StartSwitch == InitSwitch /\ IdleLoad /\ IdleDriver /\ IdleFn

SpecSwitch == StartSwitch /\ [][NextSwitch]_vars

StartDriver == InitDriver /\ IdleLoad /\ IdleSwitch /\ IdleFn

Spec == StartDriver /\ [][NextDriver]_vars

StartFn == InitFn /\ IdleLoad /\ IdleSwitch /\ IdleDriver

SpecFn == StartFn /\ [][NextFn]_vars

-----------------------------------------------------------------------------
(* Claims about load_assumptions                                           *)

\* the (enduse, fueltype) slots of the share table that list a technology
SlotsWithTech ==
    {s \in (DOMAIN tech_enduse_by) \X fuel_type_lu :
        (DOMAIN tech_enduse_by[s[1]][s[2]]) # {}}

\* C1: in the base-year share table that load_assumptions builds, the
\* shares of the technologies of every (enduse, fueltype) slot that lists
\* at least one technology sum to 1.0 (the table is exact, so no tolerance
\* is needed).
C1_BaseSharesSumToOne ==
    \A s \in SlotsWithTech : SumFn(tech_enduse_by[s[1]][s[2]]) = ShareOne

\* fuel_type_p_ey is computed
FuelTypePEySet == la_pc \notin {"start", "fuel_type_p_ey"}

\* C30: fuel_type_p_ey keeps for every enduse and fueltype the fueltype of
\* fuel_type_p_by in column 0; with all fractions 0 its share column is the
\* base-year share column, and a fraction of -0.2 for a fueltype lowers the
\* end-year share of that fueltype below its base-year share.
C30_EndYearFuelShares ==
    FuelTypePEySet =>
        \A enduse \in DOMAIN fuel_type_p_ey : \A f \in fuel_type_lu :
            LET by_row == convert_to_array(fuel_type_p_by)[enduse][f]
                ey_row == fuel_type_p_ey[enduse][f]
                frac == IF enduse \in DOMAIN assump_fuel_frac_ey
                        THEN assump_fuel_frac_ey[enduse][f] ELSE RZero
            IN  /\ ey_row[1] = by_row[1]
                /\ frac = RZero => ey_row[2] = by_row[2]
                /\ (frac = Rat(-1, 5) /\ by_row[2] # RZero)
                      => RLt(ey_row[2], by_row[2])

\* what holds: with a fraction 0 the share of the end year is the share of
\* the base year, with a fraction f it is |f - 1| times that share, and the
\* fueltype k of an enduse with fractions becomes k * |k - 1|
EndYearFuelSharesAsComputed ==
    FuelTypePEySet =>
        \A enduse \in DOMAIN fuel_type_p_ey : \A f \in fuel_type_lu :
            LET by_row == convert_to_array(fuel_type_p_by)[enduse][f]
                ey_row == fuel_type_p_ey[enduse][f]
            IN  IF enduse \in DOMAIN assump_fuel_frac_ey
                THEN /\ ey_row[1] = RInt(fuel_type_nr[f]
                                         * Abs(fuel_type_nr[f] - 1))
                     /\ ey_row[2] =
                           RMul(by_row[2],
                                RAbs(RSub(assump_fuel_frac_ey[enduse][f], ROne)))
                ELSE ey_row = by_row

-----------------------------------------------------------------------------
(* Claims about the sigmoid fit and the switch resolver                    *)

HeatingElec == <<"space_heating", "electricity">>

HeatingGas == <<"space_heating", "gas">>

BoilerOnly == DictOf({<<"boiler", ShareOne>>})

\* the scenario of C8: boiler 1.0; heat_pump to 0.3 by 2030, ceiling 0.5
C8_Scenario ==
    /\ sw_base_shares = BoilerOnly
    /\ sw_switches = {[slot |-> HeatingElec, technology |-> "heat_pump",
                       switch_yr |-> 2030, share_ey |-> (3 * ShareOne) \div 10]}

C8_Shares(year) == sw_resolved[HeatingElec].shares[year]

ConflictingPairs ==
    {p \in sw_switches \X sw_switches :
        /\ p[1] # p[2]
        /\ SameSlotYear(p[1], p[2])
        /\ p[1].share_ey + p[2].share_ey > ShareOne}

\* C9: when two switch specifications target the same (enduse, fueltype,
\* achievement_year) with target shares summing to more than 1.0, the
\* resolver fails with ConflictingSwitchError and no per-year shares exist
\* for that slot.
C9_ConflictingSwitchError ==
    \A p \in ConflictingPairs :
        /\ p[1].slot \notin DOMAIN sw_resolved
        /\ sw_pc \in {"validate", "failed"}
        /\ sw_pc = "failed" => sw_err = "ConflictingSwitchError"

C9_Witness ==
    /\ sw_pc = "failed"
    /\ sw_err = "ConflictingSwitchError"
    /\ \E p \in ConflictingPairs :
          p[1].slot = HeatingGas /\ p[1].switch_yr = 2030

\* the scenario of C10: heat_pump from 0.02 in 2015 to 0.40 in 2050,
\* ceiling 0.5
C10_Scenario ==
    /\ sw_base_shares = DictOf({<<"boiler", (98 * ShareOne) \div 100>>,
                                <<"heat_pump", (2 * ShareOne) \div 100>>})
    /\ sw_switches = {[slot |-> HeatingElec, technology |-> "heat_pump",
                       switch_yr |-> 2050, share_ey |-> (4 * ShareOne) \div 10]}
    /\ sw_pc \in {"resolve", "done"}

C10_Fit == sw_curves[HeatingElec]["heat_pump"]

DegenerateFits ==
    {p \in SwitchSlots \X tech_install :
        /\ p[1] \in DOMAIN sw_curves
        /\ p[2] \in DOMAIN sw_curves[p[1]]
        /\ BaseShare(sw_base_shares, p[2])
              = SwitchOf(sw_switches, p[1], p[2]).share_ey}

\* C11: when share_by equals share_ey the fitted curve evaluates to exactly
\* that constant for every year in [base_yr, end_yr], and the fit does not
\* fail with SigmoidFitError.
C11_DegenerateSigmoid ==
    \A p \in DegenerateFits :
        LET s == SwitchOf(sw_switches, p[1], p[2])
            fit == sw_curves[p[1]][p[2]]
        IN  /\ fit.err = "none"
            /\ \A year \in base_yr..s.switch_yr :
                  evaluate(fit.curve, year) = s.share_ey

C11_Witness ==
    /\ sw_pc = "done"
    /\ \E p \in DegenerateFits :
          /\ p[2] = "heat_pump"
          /\ SwitchOf(sw_switches, p[1], p[2]).share_ey = ShareOne \div 10
          /\ SwitchOf(sw_switches, p[1], p[2]).switch_yr = 2050
          /\ sw_resolved[p[1]].err = "none"
          /\ \A year \in sim_yrs_grid :
                sw_resolved[p[1]].shares[year]["heat_pump"] = ShareOne \div 10

FailedSlots ==
    {slot \in DOMAIN sw_curves :
        \E t \in DOMAIN sw_curves[slot] :
            sw_curves[slot][t].err = "SigmoidFitError"}

\* C18: a failed sigmoid fit is the error value of its own (enduse, fueltype)
\* only: every other slot still gets its curves and its shares of every
\* year, and the shares of the failed slot are never replaced by a default.
C18_FailedFitPerSlot ==
    sw_pc = "done" =>
        \A slot \in SwitchSlots :
            IF slot \in FailedSlots
            THEN /\ sw_resolved[slot].err = "SigmoidFitError"
                 /\ sw_resolved[slot].shares = EmptyDict
            ELSE /\ sw_resolved[slot].err = "none"
                 /\ \A t \in DOMAIN sw_curves[slot] :
                       sw_curves[slot][t].err = "none"
                 /\ DOMAIN sw_resolved[slot].shares = sim_yrs_grid
                 /\ \A year \in sim_yrs_grid :
                       SumFn(sw_resolved[slot].shares[year]) = ShareOne

C18_Witness ==
    /\ sw_pc = "done"
    /\ HeatingElec \in FailedSlots
    /\ sw_resolved[HeatingElec].err = "SigmoidFitError"
    /\ \E slot \in SwitchSlots :
          /\ slot[1] = "water_heating"
          /\ DOMAIN sw_curves[slot] # {}
          /\ sw_resolved[slot].err = "none"
          /\ \E t \in DOMAIN sw_curves[slot] :
                sw_resolved[slot].shares[2050][t] > 0

-----------------------------------------------------------------------------
(* Claims about the helper functions                                       *)

\* (share / eff) / sum(share / eff) of a technology within its fueltype
HarmonicFraction(slot, eff_by, tech) ==
    RDiv(RDiv(slot[tech], eff_by[tech]), overall_tech_share(slot, eff_by))

EvenShares(slot) ==
    /\ Cardinality(DOMAIN slot) = 2
    /\ \A t \in DOMAIN slot : slot[t] = Rat(1, 2)

\* the fueltypes of an enduse of the call that have technologies
FueltypesWithTech(enduse) ==
    {f \in DOMAIN fn_call.fuels[enduse] :
        fn_call.tech_enduse[enduse][f] # EmptyDict}

\* C12: the aggregate efficiency of a fueltype is 1 / sum(share / eff), 4/3
\* for shares {0.5, 0.5} and efficiencies {1.0, 2.0}; calc_enduse_fuel_tech_by
\* gives each technology the fraction (share / eff) / sum(share / eff) of the
\* fuel of its fueltype, and the fractions of every fueltype that has
\* technologies sum to 1.
C12_HarmonicFuelFractions ==
    /\ Returned("weighted_enduse_efficiency") =>
          /\ RMul(fn_result, overall_tech_share(fn_call.slot, fn_call.eff_by)) = ROne
          /\ (/\ EvenShares(fn_call.slot)
              /\ {fn_call.eff_by[t] : t \in DOMAIN fn_call.slot} = {ROne, RInt(2)})
                => fn_result = Rat(4, 3)
    /\ Returned("calc_enduse_fuel_tech_by") =>
          \A enduse \in fn_call.enduses : \A f \in FueltypesWithTech(enduse) :
              LET slot == fn_call.tech_enduse[enduse][f]
                  tot == RInt(SumFn(fn_call.fuels[enduse]))
                  fuel == RInt(fn_call.fuels[enduse][f])
              IN /\ fn_result.err = "none"
                 /\ RSumOver([t \in DOMAIN slot |->
                                HarmonicFraction(slot, fn_call.eff_by, t)],
                             DOMAIN slot) = ROne
                 /\ \A t \in DOMAIN slot :
                       RMul(fn_result.enduse_fuel_tech_by[enduse][t], tot)
                         = RMul(HarmonicFraction(slot, fn_call.eff_by, t), fuel)

\* C15: for a daily demand that is not negative and does not sum to zero,
\* get_shape_peak_yd_factor returns max(demand_yd) / sum(demand_yd), a value
\* between 1 / number of days and 1.
C15_PeakFactor ==
    (Returned("get_shape_peak_yd_factor") /\ SumYd(fn_call.demand_yd) # RZero) =>
        LET total == SumYd(fn_call.demand_yd)
        IN /\ \A d \in DayRange : RLe(fn_call.demand_yd[d], RMul(fn_result, total))
           /\ \E d \in DayRange : fn_call.demand_yd[d] = RMul(fn_result, total)
           /\ RLe(Rat(1, Days), fn_result)
           /\ RLe(fn_result, ROne)

C15_Witness ==
    /\ Returned("get_shape_peak_yd_factor")
    /\ fn_call.demand_yd[1] = Rat(1, 2)
    /\ \A d \in DayRange \ {1} : fn_call.demand_yd[d] = Rat(3, 2)
    /\ RLt(Rat(1, Days), fn_result)
    /\ RLt(fn_result, ROne)

\* the factor the call assigns
AssignedFactor ==
    IF fn_call.given THEN fn_call.tech_eff_achieved_f ELSE Rat(1, 2)

FirstLevelKeys ==
    {fn_call.first_level_keys[i] : i \in DOMAIN fn_call.first_level_keys}

RawRow == fn_call.raw_rows[1]

OutsideZeroTwo(eff) == eff[1] <= 0 \/ eff[1] > 2 * eff[2]

InvalidRow ==
    \/ RawRow.fuel_type \notin fuel_type_lu
    \/ OutsideZeroTwo(RawRow.eff_by)
    \/ OutsideZeroTwo(RawRow.eff_ey)

\* C17: a technology row whose fuel_type is not a recognised fueltype, or
\* whose eff_by or eff_ey lies outside (0, 2], fails with
\* InvalidTechnologyData and leaves no registry entry and no Technology
\* object; every other row, efficiencies in (1, 2] included, is loaded.
C17_InvalidTechnologyData ==
    Returned("read_technologies") =>
        IF InvalidRow
        THEN /\ fn_result.err = "InvalidTechnologyData"
             /\ RawRow.name \notin DOMAIN fn_result.technologies_
             /\ RawRow.name \notin DOMAIN fn_result.stock
        ELSE /\ fn_result.err = "none"
             /\ RawRow.name \in DOMAIN fn_result.technologies_
             /\ fn_result.technologies_[RawRow.name].eff_by = RawRow.eff_by
             /\ fn_result.technologies_[RawRow.name].eff_ey = RawRow.eff_ey
             /\ fn_result.stock[RawRow.name].eff_by = RawRow.eff_by

C17_Witness ==
    /\ Returned("read_technologies")
    /\ RawRow.fuel_type = "electricity"
    /\ RawRow.eff_by = ROne
    /\ RawRow.eff_ey = RInt(2)
    /\ fn_result.err = "none"
    /\ fn_result.stock[RawRow.name].eff_by = ROne

\* entries of the first-level entries before the i-th
RECURSIVE EntriesBefore(_, _)
EntriesBefore(nested_dict, i) ==
    IF i <= 1 THEN 0
    ELSE Len(nested_dict[i - 1][2]) + EntriesBefore(nested_dict, i - 1)

TechnologyEndusePairs ==
    UNION {{<<t, e>> : t \in fn_call.technologies_[e]} :
              e \in DOMAIN fn_call.technologies_}

\* the stock the call returned
ReturnedStock == fn_heap[fn_result.id]

C23_GetTechAttr ==
    (fn_pc = "got_attr" /\ fn_call.fn = "create_tech_stock") =>
        LET obj == ReturnedStock[<<fn_result.tech_name, fn_result.enduse>>]
            a == fn_result.attribute_to_get
        IN  IF a \in get_tech_attr_names
            THEN /\ fn_result.got.outcome = "return"
                 /\ fn_result.got.attribute_value = obj[a]
            ELSE fn_result.got.outcome = "sys.exit"

\* what holds of get_tech_attr: a supported name gives the attribute where
\* the object has it and AttributeError where it has not, any other name
\* ends in sys.exit
GetTechAttrOutcomes ==
    (fn_pc = "got_attr" /\ fn_call.fn = "create_tech_stock") =>
        LET obj == ReturnedStock[<<fn_result.tech_name, fn_result.enduse>>]
            a == fn_result.attribute_to_get
        IN  /\ a \notin get_tech_attr_names <=> fn_result.got.outcome = "sys.exit"
            /\ a \in {"tech_low_temp", "tech_low_temp_fueltype",
                      "tech_high_temp_fueltype", "fueltype_share_yh_all_h"}
                  => fn_result.got.outcome = "AttributeError"
            /\ (a \in {"tech_fueltype", "tech_fueltype_int", "eff_cy", "eff_by"}
                /\ obj.tech_type # "dummy_tech")
                  => fn_result.got.outcome = "return"
            /\ a = "tech_type" => fn_result.got = [outcome |-> "return",
                                                   attribute_value |-> obj.tech_type]

\* C28: create_tech_stock succeeds for every technology of the type
\* dummy_tech, whatever its name: the placeholder is stored under
\* (name, enduse) with its name and type only.
C28_DummyTechOfAnyName ==
    Returned("create_tech_stock") =>
        \A k \in TechnologyEndusePairs :
            get_tech_type(k[1], fn_call.tech_list) = "dummy_tech" =>
                /\ fn_result.err = "none"
                /\ ReturnedStock[k] = [tech_name |-> k[1], tech_type |-> "dummy_tech"]

\* what holds: the placeholder named 'dummy_tech' is stored with its name
\* and type only, and a call with a dummy_tech of another name raises
DummyTechByName ==
    Returned("create_tech_stock") =>
        /\ fn_result.err = "TypeError" <=>
              \E k \in TechnologyEndusePairs :
                 /\ get_tech_type(k[1], fn_call.tech_list) = "dummy_tech"
                 /\ k[1] # "dummy_tech"
        /\ fn_result.err = "none" =>
              \A k \in TechnologyEndusePairs :
                 k[1] = "dummy_tech" =>
                    ReturnedStock[k] = [tech_name |-> k[1],
                                        tech_type |-> "dummy_tech"]

\* C24: get_fuel_shape_heating_hp_yh returns a shape_yh whose total over all
\* returned days and hours is 1 and a shape_y_dh in which every returned day
\* sums to 1, for every array of heating degree days.
C24_HpShapeSums ==
    Returned("get_fuel_shape_heating_hp_yh") =>
        /\ SumYh(fn_result.shape_yh) = ROne
        /\ \A d \in DayRange : SumHours(fn_result.shape_y_dh[d]) = ROne

\* what holds: a day with heating degree days sums to 1 in shape_y_dh and a
\* day without sums to 0; shape_yh sums to 1 unless no day has any
HpShapeSumsOfHeatedDays ==
    Returned("get_fuel_shape_heating_hp_yh") =>
        /\ SumYh(fn_result.shape_yh) =
              IF \E d \in DayRange : fn_call.rs_hdd_cy[d] # RZero
              THEN ROne ELSE RZero
        /\ \A d \in DayRange :
              SumHours(fn_result.shape_y_dh[d]) =
                 IF fn_call.rs_hdd_cy[d] # RZero THEN ROne ELSE RZero

\* C27: ss_get_sector_enduse_shape returns normally for every enduse: for an
\* enduse without an entry in tech_lps the all-zero yh shape with a defined
\* second result, for an enduse with an entry heating_lp_yd[d] *
\* shape_non_peak_y_dh[d][h] and the shape of the entry.
C27_SectorEnduseShapeReturns ==
    Returned("ss_get_sector_enduse_shape") =>
        /\ fn_result.err = "none"
        /\ fn_result.shape_y_dh # None
        /\ \A d \in DayRange : \A h \in HourRange :
              fn_result.shape_yh[d][h] =
                 IF fn_call.enduse \in DOMAIN tech_lp.ss_all_tech_shapes_dh
                 THEN RMul(fn_call.heating_lp_yd[d],
                           tech_lp.ss_all_tech_shapes_dh[fn_call.enduse]
                              .shape_non_peak_y_dh[d][h])
                 ELSE RZero

\* what holds: the call returns for the enduses tech_lps has an entry for,
\* and raises for every other enduse
SectorEnduseShapeOfKnownEnduse ==
    Returned("ss_get_sector_enduse_shape") =>
        IF fn_call.enduse \in DOMAIN tech_lp.ss_all_tech_shapes_dh
        THEN /\ fn_result.err = "none"
             /\ fn_result.shape_y_dh =
                   tech_lp.ss_all_tech_shapes_dh[fn_call.enduse].shape_non_peak_y_dh
             /\ \A d \in DayRange : \A h \in HourRange :
                   fn_result.shape_yh[d][h] =
                      RMul(fn_call.heating_lp_yd[d], fn_result.shape_y_dh[d][h])
        ELSE fn_result.err = "UnboundLocalError"

-----------------------------------------------------------------------------
(* Claims about the driver and WeatherRegion                               *)

SeqRange(s) == {s[i] : i \in DOMAIN s}

\* the load profiles the WeatherRegion under construction has registered
RsProfiles == SeqRange(load_profiles.rs_load_profiles)

SsHeatingProfiles ==
    {lp \in SeqRange(load_profiles.ss_load_profiles) :
        lp.enduses = <<"ss_space_heating">>}

SsCoolingProfiles ==
    {lp \in SeqRange(load_profiles.ss_load_profiles) :
        lp.enduses # <<"ss_space_heating">>}

IsProfiles == SeqRange(load_profiles.is_load_profiles)

RegisteredProfiles ==
    RsProfiles \cup SsHeatingProfiles \cup SsCoolingProfiles \cup IsProfiles

HoursSumToDay(lp) ==
    \A d \in DayRange : SumHours(lp.shape_yh[d]) = lp.shape_yd[d]

\* C2: for every load profile WeatherRegion registers and every modelled
\* day, the hours of shape_yh of that day sum to shape_yd of that day.
C2_HoursSumToDay == \A lp \in RegisteredProfiles : HoursSumToDay(lp)

\* shape_yd and shape_yh of a profile each sum to 1
SumsToOne(lp) == SumYd(lp.shape_yd) = ROne /\ SumYh(lp.shape_yh) = ROne

\* C3: every registered load profile has a shape_yd that sums to 1 over the
\* modelled days and a shape_yh that sums to 1 over all days and hours,
\* whenever the degree days of the current year it is built from do not
\* sum to zero.
C3_ShapesSumToOne ==
    /\ \A lp \in RsProfiles : SumYd(wr.rs_hdd_cy) # RZero => SumsToOne(lp)
    /\ \A lp \in SsHeatingProfiles : SumYd(wr.ss_hdd_cy) # RZero => SumsToOne(lp)
    /\ \A lp \in SsCoolingProfiles : SumYd(wr.ss_cdd_cy) # RZero => SumsToOne(lp)
    /\ \A lp \in IsProfiles : SumYd(wr.is_hdd_cy) # RZero => SumsToOne(lp)

AllRegistered ==
    /\ Len(load_profiles.rs_load_profiles) = 6
    /\ Len(load_profiles.ss_load_profiles) = 1 + Len(CoolingPairs)
    /\ Len(load_profiles.is_load_profiles) = 1

C3_Witness ==
    /\ AllRegistered
    /\ SumYd(wr.rs_hdd_cy) # RZero
    /\ SumYd(wr.ss_hdd_cy) # RZero
    /\ SumYd(wr.ss_cdd_cy) # RZero
    /\ SumYd(wr.is_hdd_cy) # RZero
    /\ \E d \in DayRange : daytype[d] = "holiday" /\ wr.ss_hdd_cy[d] # RZero
    /\ \A lp \in RegisteredProfiles : SumsToOne(lp)

\* the daily shape is the degree days with the weekend factor applied and
\* the year made relative afterwards: it sums to 1, and of two days with
\* the same degree days the holiday gets less than the working day
CorrectedThenRelative(lp, dd) ==
    SumYd(dd) # RZero =>
        /\ SumYd(lp.shape_yd) = ROne
        /\ \A d1, d2 \in DayRange :
              (/\ daytype[d1] = "holiday"
               /\ daytype[d2] = "working_day"
               /\ dd[d1] = dd[d2]
               /\ dd[d1] # RZero)
              => RLt(lp.shape_yd[d1], lp.shape_yd[d2])

\* C4: where a weekend correction factor is applied to a daily shape
\* (service space heating, service cooling, industry space heating), the
\* factor is applied first and making the year relative is the last step
\* before the shape is registered as shape_yd.
C4_CorrectionBeforeRenormalisation ==
    /\ \A lp \in SsHeatingProfiles : CorrectedThenRelative(lp, wr.ss_hdd_cy)
    /\ \A lp \in SsCoolingProfiles : CorrectedThenRelative(lp, wr.ss_cdd_cy)
    /\ \A lp \in IsProfiles : CorrectedThenRelative(lp, wr.is_hdd_cy)

C4_Witness ==
    /\ AllRegistered
    /\ \E d1, d2 \in DayRange :
          /\ daytype[d1] = "holiday"
          /\ daytype[d2] = "working_day"
          /\ wr.ss_hdd_cy[d1] = wr.ss_hdd_cy[d2] /\ wr.ss_hdd_cy[d1] # RZero
          /\ wr.ss_cdd_cy[d1] = wr.ss_cdd_cy[d2] /\ wr.ss_cdd_cy[d1] # RZero
          /\ wr.is_hdd_cy[d1] = wr.is_hdd_cy[d2] /\ wr.is_hdd_cy[d1] # RZero
          /\ \A lp \in SsHeatingProfiles \cup SsCoolingProfiles \cup IsProfiles :
                SumYd(lp.shape_yd) = ROne /\ RLt(lp.shape_yd[d1], lp.shape_yd[d2])

\* C5: a technology stock is not changed once it is built: whatever step is
\* taken, every stock built so far keeps its keys and every attribute of
\* every Technology in it.
C5_StockImmutable ==
    [][\A k \in DOMAIN stock_ref :
          /\ k \in DOMAIN stock_ref'
          /\ stock_ref'[k] \in DOMAIN heap'
          /\ heap'[stock_ref'[k]] = heap[stock_ref[k]]]_vars

C5_Witness ==
    \E y1, y2 \in SeqRange(sim_yrs) :
        /\ y1 < y2
        /\ <<y1, "rs_tech_stock">> \in DOMAIN stock_ref
        /\ <<y2, "is_tech_stock">> \in DOMAIN stock_ref
        /\ heap[stock_ref[<<y1, "rs_tech_stock">>]]
              # heap[stock_ref[<<y2, "rs_tech_stock">>]]

\* the technology assumptions of a run that simulates only the year
RunAlone(year) ==
    update_technology_assumption(
        update_technology_assumption(InitialTechnologies,
                                     strategy_variables.f_eff_achieved,
                                     strategy_variables.gshp_fraction),
        non_regional_vars.f_eff_achieved[year],
        non_regional_vars.gshp_fraction[year])

StocksOfYear ==
    {n \in DOMAIN specified_tech_enduse_by : <<curr_yr, n>> \in DOMAIN stock_ref}

\* the base temperatures WeatherRegion passes to a stock: base year and
\* current year
StockBaseTemps(stock_name) ==
    IF stock_name = "rs_tech_stock"
    THEN [by |-> RInt(rs_t_heating_by), cy |-> wr.rs_t_base_heating_cy]
    ELSE IF stock_name = "ss_tech_stock"
    THEN [by |-> RInt(ss_t_heating_by), cy |-> wr.ss_t_base_heating_cy]
    ELSE [by |-> RInt(is_t_heating_by), cy |-> wr.ss_t_base_heating_cy]

\* eff_flat + slope * (t - balance), temperatures in 0.5 degC
HpEffOfHour(eff_flat, t, balance) ==
    RAdd(eff_flat,
         RMul(heat_pump_slope_assumption, RDiv(RSub(t, balance), RInt(2))))

\* the current-year efficiency of a technology before any temperature
\* dependence: the achieved part of the gain reached by the current year
EffFlatCy(tech_name) ==
    LET t == technologies[tech_name]
        reached == IF curr_yr = base_yr THEN t.eff_by
                   ELSE RAdd(t.eff_by,
                             RMul(RSub(t.eff_ey, t.eff_by),
                                  Rat(curr_yr - base_yr,
                                      simulation_end_yr - base_yr)))
    IN RAdd(t.eff_by, RMul(t.eff_achieved, RSub(reached, t.eff_by)))

IsScalar(x) == DOMAIN x = 1..2 /\ x[1] \in Int /\ x[2] \in Int

\* C13: a technology of type heat_pump has an eff_cy of every hour,
\* eff_flat + slope * (t - balance) from the current-year temperature of
\* the hour, the current-year efficiency and the current-year heating base
\* temperature, and an eff_by of every hour from the base-year temperature,
\* efficiency and base temperature; every other technology that is not a
\* dummy has scalar eff_by and eff_cy that do not depend on temperature.
C13_HeatPumpHourlyEfficiency ==
    \A n \in StocksOfYear :
        \A k \in DOMAIN StockOf(n) :
            LET obj == StockOf(n)[k]
                t_base == StockBaseTemps(n)
            IN  IF obj.tech_type = "heat_pump"
                THEN \A d \in DayRange : \A h \in HourRange :
                        /\ obj.eff_cy[d][h]
                             = HpEffOfHour(EffFlatCy(k[1]), wr.temp_cy[d][h], t_base.cy)
                        /\ obj.eff_by[d][h]
                             = HpEffOfHour(technologies[k[1]].eff_by,
                                           temp_by[d][h], t_base.by)
                ELSE obj.tech_type # "dummy_tech" =>
                        /\ IsScalar(obj.eff_by)
                        /\ IsScalar(obj.eff_cy)
                        /\ obj.eff_by = technologies[k[1]].eff_by
                        /\ obj.eff_cy = EffFlatCy(k[1])

C13_Witness ==
    /\ curr_yr = 2030
    /\ "rs_tech_stock" \in StocksOfYear
    /\ LET hp == StockOf("rs_tech_stock")[<<"heat_pumps_electricity", "rs_space_heating">>]
           boiler == StockOf("rs_tech_stock")[<<"boiler_gas", "rs_space_heating">>]
       IN /\ hp.tech_type = "heat_pump"
          /\ \E d \in DayRange : \E h1, h2 \in HourRange :
                hp.eff_cy[d][h1] # hp.eff_cy[d][h2]
          /\ hp.eff_cy # hp.eff_by
          /\ IsScalar(boiler.eff_cy)
          /\ boiler.eff_cy # boiler.eff_by

\* efficiency_at_year: the linear interpolation from eff_by at the base year
\* to eff_ey at year_eff_ey, flat before and after, the gain scaled by
\* eff_achieved
LinearEfficiencyAtYear(t, year) ==
    LET e == IF year <= base_yr \/ t.year_eff_ey <= base_yr THEN
                 IF year < t.year_eff_ey THEN t.eff_by
                 ELSE IF t.year_eff_ey <= base_yr /\ year >= t.year_eff_ey
                      THEN t.eff_ey ELSE t.eff_by
             ELSE IF year >= t.year_eff_ey THEN t.eff_ey
             ELSE RAdd(t.eff_by,
                       RMul(RSub(t.eff_ey, t.eff_by),
                            Rat(year - base_yr, t.year_eff_ey - base_yr)))
    IN RAdd(t.eff_by, RMul(t.eff_achieved, RSub(e, t.eff_by)))

\* the technologies of the stocks of the year that have a scalar efficiency
ScalarTechs ==
    {p \in StocksOfYear \X StockKeys(specified_tech_enduse_by.rs_tech_stock) :
        /\ p[2] \in DOMAIN StockOf(p[1])
        /\ StockOf(p[1])[p[2]].tech_type \notin {"dummy_tech", "heat_pump"}
        /\ StockOf(p[1])[p[2]].diff_method = "linear"}

\* C16: the current-year efficiency of a technology with diff_method linear
\* is eff_by + eff_achieved * (e(year) - eff_by), e(year) the linear
\* interpolation from eff_by at the base year to eff_ey at year_eff_ey,
\* held flat before and after; the stock computes it from the inputs it
\* passes on.
C16_LinearEfficiency ==
    \A p \in ScalarTechs :
        StockOf(p[1])[p[2]].eff_cy
            = LinearEfficiencyAtYear(technologies[p[2][1]], curr_yr)

\* the profile WeatherRegion registers for the heat pumps
HpProfiles == {lp \in RsProfiles : lp.technologies = tech_lists.heating_non_const}

\* rs_hdd_cy[d] / eff_cy[d][h] * tech_lp_y_dh[d][h]
HpFuelOfHour(d, h) ==
    RMul(RDiv(wr.rs_hdd_cy[d],
              StockOf("rs_tech_stock")[<<"heat_pumps_electricity",
                                         "rs_space_heating">>].eff_cy[d][h]),
         tech_lp.rs_profile_hp_y_dh[d][h])

EffOfDayDiffers(d1, d2) ==
    LET eff == StockOf("rs_tech_stock")[<<"heat_pumps_electricity",
                                          "rs_space_heating">>].eff_cy
    IN  eff[d1] # eff[d2]

StepIndex(steps, step) == CHOOSE i \in DOMAIN steps : steps[i] = step

\* C7: while a yearly model run is in progress the switch calculation of
\* all simulated years is stored in regional_vars, and from the step that
\* computes the heat pump load profile on, the residential technology
\* stock of the year exists and holds the heat pump.
C7_DependencyOrder ==
    /\ (wr_i >= 1) =>
          /\ "annual_tech_diff_params" \in DOMAIN regional_vars
          /\ DOMAIN regional_vars.annual_tech_diff_params = SeqRange(sim_yrs)
    /\ (wr_i >= StepIndex(WeatherRegionSteps, "rs_heat_pump_lp")) =>
          /\ <<curr_yr, "rs_tech_stock">> \in DOMAIN stock_ref
          /\ <<"heat_pumps_electricity", "rs_space_heating">>
                \in DOMAIN StockOf("rs_tech_stock")

C7_Witness ==
    /\ AtWR("rs_district_heating_lp")
    /\ yr_i = 1
    /\ DOMAIN regional_vars.annual_tech_diff_params = SeqRange(main_sim_yrs)
    /\ \E lp \in RsProfiles : lp.technologies = tech_lists.heating_non_const

\* the daily shape of the cooling degree days of the current year
CddShapeYd == calc_reg_cdd(wr.temp_cy, wr.ss_t_base_cooling_cy).shape_yd

\* C25: in the service cooling loop every registered (cooling enduse,
\* sector) profile gets the same shape_yd, the CDD shape with the weekend
\* factor applied once and then made relative, however many sectors and
\* enduses were processed before it.
C25_CoolingWeekendFactorOnce ==
    \A lp \in SsCoolingProfiles :
        lp.shape_yd = abs_to_rel(MulYd(CddShapeYd, cdd_weekend_cfactors))

\* what holds: the i-th registered cooling profile carries the factor i
\* times
CoolingWeekendFactorPerPass ==
    LET lps == load_profiles.ss_load_profiles
    IN \A i \in DOMAIN lps :
          lps[i].enduses # <<"ss_space_heating">> =>
             lps[i].shape_yd =
                apply_weekend_f(IF lps[i - 1].enduses = <<"ss_space_heating">>
                                THEN CddShapeYd ELSE lps[i - 1].shape_yd,
                                cdd_weekend_cfactors)

\* the service degree days of the region are computed
SsFactorsSet == wr.f_heat_ss_y # None

\* C26: f_heat_ss_y is sum(ss_hdd_cy) / sum(ss_hdd_by) whenever
\* sum(ss_hdd_by) is not zero, whatever the cooling degree days; the
\* fallback 1 is taken for f_heat_ss_y only when sum(ss_hdd_by) is zero and
\* for f_cooling_ss_y only when sum(ss_cdd_by) is zero.
C26_ClimateFactorsIndependent ==
    SsFactorsSet =>
        /\ wr.f_heat_ss_y =
              IF SumYd(wr.ss_hdd_by) # RZero
              THEN RDiv(SumYd(wr.ss_hdd_cy), SumYd(wr.ss_hdd_by)) ELSE ROne
        /\ wr.f_cooling_ss_y =
              IF SumYd(wr.ss_cdd_by) # RZero
              THEN RDiv(SumYd(wr.ss_cdd_cy), SumYd(wr.ss_cdd_by)) ELSE ROne

\* what holds: the two factors are the ratios when both base-year sums are
\* not zero, and both are 1 as soon as one of the sums is zero
ClimateFactorsFallBackTogether ==
    SsFactorsSet =>
        IF SumYd(wr.ss_hdd_by) # RZero /\ SumYd(wr.ss_cdd_by) # RZero
        THEN /\ wr.f_heat_ss_y = RDiv(SumYd(wr.ss_hdd_cy), SumYd(wr.ss_hdd_by))
             /\ wr.f_cooling_ss_y = RDiv(SumYd(wr.ss_cdd_cy), SumYd(wr.ss_cdd_by))
        ELSE wr.f_heat_ss_y = ROne /\ wr.f_cooling_ss_y = ROne

\* the heating base temperatures of the submodel of a stock: base year and
\* current year
SubmodelBaseTemps(stock_name) ==
    IF stock_name = "rs_tech_stock"
    THEN [by |-> RInt(rs_t_heating_by), cy |-> wr.rs_t_base_heating_cy]
    ELSE IF stock_name = "ss_tech_stock"
    THEN [by |-> RInt(ss_t_heating_by), cy |-> wr.ss_t_base_heating_cy]
    ELSE [by |-> RInt(is_t_heating_by), cy |-> wr.is_t_base_heating_cy]

\* C29: the stock of each submodel is built with the heating base
\* temperatures of that submodel: the heat pumps of rs_tech_stock,
\* ss_tech_stock and is_tech_stock have the hourly efficiencies of
\* (rs_t_heating_by, rs_t_base_heating_cy), (ss_t_heating_by,
\* ss_t_base_heating_cy) and (is_t_heating_by, is_t_base_heating_cy).
C29_StockBaseTemperatures ==
    \A n \in StocksOfYear :
        \A k \in DOMAIN StockOf(n) :
            LET obj == StockOf(n)[k]
                t_base == SubmodelBaseTemps(n)
            IN  obj.tech_type = "heat_pump" =>
                   \A d \in DayRange : \A h \in HourRange :
                        /\ obj.eff_cy[d][h]
                             = HpEffOfHour(EffFlatCy(k[1]), wr.temp_cy[d][h], t_base.cy)
                        /\ obj.eff_by[d][h]
                             = HpEffOfHour(technologies[k[1]].eff_by,
                                           temp_by[d][h], t_base.by)

====
